---------------------------- MODULE EpollProofs ----------------------------
(***************************************************************************)
(* What Epoll guarantees for any number of threads and files, any set of   *)
(* interests and any order of callbacks, scans and changes: the types, the *)
(* four invariants and the action property that the runs check on small    *)
(* instances.                                                              *)
(*                                                                         *)
(* The invariant IInv adds to them who holds the mutex and what its holder *)
(* is in the middle of: the callbacks interrupt a scan or a change at any  *)
(* point, and what makes them safe is what the interrupted thread has not  *)
(* done yet.                                                               *)
(***************************************************************************)
EXTENDS Epoll, FilterProofs

Scanning == {"scan", "report", "read", "end"}

\* The holder of the mutex is in a section that needs it, and nobody else is.
HolderIsBusy == \A t \in Threads : mtx = t => pc[t] \in Locked

\* The ready list is stolen, and callbacks go to the overflow list, just as long as
\* somebody scans.
ListsOfScan ==
    /\ ovflist # Unactive <=> \E t \in Threads : pc[t] \in Scanning
    /\ ovflist = Unactive => txlist = << >>

\* The queue of epoll_wait holds the waiting threads, each once.
Waiters ==
    /\ IsInjective(wq)
    /\ Range(wq) = {t \in Threads : pc[t] = "wait"}

\* What the thread in a section knows of the file it is about.
InSection ==
    \A t \in Threads :
        /\ pc[t] \in {"poll", "link"} => arg[t].f \in hooked
        /\ pc[t] = "free" => arg[t].f \in DOMAIN item \ hooked
        /\ pc[t] = "report" => /\ arg[t].f \in DOMAIN item /\ ~Linked(arg[t].f)
                               /\ arg[t].n < MaxEvents
                               /\ item[arg[t].f].events # {}

\* An item without its hook is about to be freed.
HookedUnlessFreed ==
    \A f \in DOMAIN item \ hooked : \E t \in Threads : pc[t] = "free" /\ arg[t].f = f

\* The look at a file that ep_insert and ep_modify take missed nothing that did not
\* come with a callback.
LookIsCovered ==
    \A t \in Threads : pc[t] = "link" =>
        \A b \in ItemPoll(arg[t].f) :
            \/ b \in arg[t].rev
            \/ Queued(arg[t].f)
            \/ << arg[t].f, b >> \in wakes

\* Nor did the look of ep_send_events_proc, while the file is being reported.
ReportIsCovered ==
    \A t \in Threads : pc[t] = "report" =>
        \A b \in ItemPoll(arg[t].f) :
            << arg[t].f, b >> \in fresh =>
                Queued(arg[t].f) \/ << arg[t].f, b >> \in wakes

\* A one-shot item that was reported asks for nothing.
OneShotSpent ==
    \A f \in DOMAIN item : item[f].how = "oneshot" /\ shots[f] # 0
        => shots[f] = 1 /\ item[f].events = {}

\* The eventpoll is kept awake for what is in the overflow list.
OverflowHeld ==
    ovflist # Unactive => \A f \in Range(ovflist) : item[f].wake => epws

IInv ==
    /\ TypeOK /\ HolderIsBusy /\ ListsOfScan /\ Waiters /\ InSection
    /\ HookedUnlessFreed /\ LookIsCovered /\ ReportIsCovered /\ OneShotSpent
    /\ OverflowHeld /\ ListsHoldLive /\ ReadyIsQueued /\ NoLostWakeup

-----------------------------------------------------------------------------
(* Facts that many steps use.                                               *)

\* The mutex excludes: its holder is alone in a section, and without a holder
\* nobody is in one.
LEMMA Exclusion ==
  ASSUME IInv
  PROVE  /\ \A t, u \in Threads : mtx = t /\ pc[u] \in Locked => u = t
         /\ \A t, u \in Threads : pc[t] \in Locked /\ pc[u] \in Locked => u = t
         /\ mtx = NoOne => \A t \in Threads : pc[t] \notin Locked
BY EpollAssumption DEF IInv, TypeOK

\* Nobody scans unless somebody is in a section.
LEMMA NoScan ==
  ASSUME IInv, \A t \in Threads : pc[t] \notin Scanning
  PROVE  ovflist = Unactive /\ txlist = << >>
BY DEF IInv, ListsOfScan

\* What a step of one thread does to the control points.
LEMMA GotoMoves ==
  ASSUME TypeOK, NEW t \in Threads, NEW l \in Pcs, Goto(t, l)
  PROVE  /\ pc' \in [Threads -> Pcs] /\ pc'[t] = l
         /\ \A u \in Threads : u # t => pc'[u] = pc[u]
BY DEF TypeOK, Goto

\* What it does to the local variables.
LEMMA ArgMoves ==
  ASSUME TypeOK, NEW t \in Threads, NEW a \in Frame, arg' = [arg EXCEPT ![t] = a]
  PROVE  /\ arg' \in [Threads -> Frame] /\ arg'[t] = a
         /\ \A u \in Threads : u # t => arg'[u] = arg[u]
BY DEF TypeOK

\* The flags of a call.
LEMMA FlagMoves ==
  ASSUME TypeOK, NEW t \in Threads,
         \/ arg' = [arg EXCEPT ![t].timed = TRUE]
         \/ arg' = [arg EXCEPT ![t].signal = TRUE]
         \/ arg' = [arg EXCEPT ![t].reads = TRUE]
  PROVE  /\ arg' \in [Threads -> Frame]
         /\ \A u \in Threads : u # t => arg'[u] = arg[u]
<1>1. arg \in [Threads -> Frame]
  BY DEF TypeOK
<1>2. \A a \in Frame : /\ [a EXCEPT !.timed = TRUE] \in Frame
                       /\ [a EXCEPT !.signal = TRUE] \in Frame
                       /\ [a EXCEPT !.reads = TRUE] \in Frame
  BY DEF Frame
<1>3. PICK b \in Frame : arg' = [arg EXCEPT ![t] = b]
  BY <1>1, <1>2
<1> QED BY <1>1, <1>3

LEMMA IdleIsFrame == Idle \in Frame
BY EpollAssumption DEF Idle, Frame

\* The overflow list of a scan is a list of files, which Unactive is not.
LEMMA OverflowList ==
  ASSUME TypeOK, ovflist # Unactive
  PROVE  ovflist \in Seq(Files)
BY DEF TypeOK

LEMMA NotUnactive == ASSUME NEW s \in Seq(Files) PROVE s # Unactive
<1> SUFFICES ASSUME s = Unactive PROVE FALSE
  OBVIOUS
<1>1. s[1] \in Files
  BY DEF Unactive
<1>2. s[1] = "EP_UNACTIVE_PTR"
  BY DEF Unactive
<1> QED BY <1>1, <1>2, EpollAssumption

\* Waking up: whoever was woken was asleep, and somebody was if anybody was.
LEMMA WakeOneWakes ==
  ASSUME IInv, WakeOne
  PROVE  /\ asleep' \subseteq asleep
         /\ asleep # {} => \E t \in asleep : t \notin asleep'
<1> DEFINE sleepers == Keep(wq, asleep)
<1>1. /\ sleepers \in Seq(Threads)
      /\ Range(sleepers) = Range(wq) \cap asleep
  BY KeepProperties DEF IInv, TypeOK
<1>2. asleep \subseteq Range(wq)
  BY DEF IInv, TypeOK
<1>3. asleep' = IF sleepers = << >> THEN asleep ELSE asleep \ {Head(sleepers)}
  BY DEF WakeOne
<1> HIDE DEF sleepers
<1>4. CASE sleepers = << >>
  BY <1>1, <1>2, <1>3, <1>4, EmptyProperties
<1>5. CASE sleepers # << >>
  <2>1. Head(sleepers) \in Range(sleepers)
    BY <1>1, <1>5, TailMembers
  <2> QED BY <1>1, <1>3, <1>5, <2>1
<1> QED BY <1>4, <1>5

\* A file put into the ready list: it is linked then, and so is what was.
LEMMA LinkLinks ==
  ASSUME IInv, NEW f \in DOMAIN item, Link(f), txlist' = txlist
  PROVE  /\ rdllist' \in Seq(Files) /\ (rdllist' # << >> \/ Linked(f))
         /\ Range(rdllist') \cup Range(txlist) = Range(rdllist) \cup Range(txlist) \cup {f}
         /\ IsInjective(txlist \o rdllist')
         /\ ws' \subseteq Files
<1>1. f \in Files /\ rdllist \in Seq(Files) /\ txlist \in Seq(Files) /\ ws \subseteq Files
  BY DEF IInv, TypeOK
<1>2. IsInjective(txlist \o rdllist)
  BY DEF IInv, ListsHoldLive
<1>3. /\ IsInjective(txlist) /\ IsInjective(rdllist)
      /\ Range(txlist) \cap Range(rdllist) = {}
  BY <1>1, <1>2, ConcatMembers
<1>4. CASE Linked(f)
  BY <1>1, <1>2, <1>4 DEF Link, Linked
<1>5. CASE ~Linked(f)
  <2>1. rdllist' = Append(rdllist, f)
    BY <1>5 DEF Link
  <2>2. /\ Append(rdllist, f) \in Seq(Files) /\ Append(rdllist, f) # << >>
        /\ Range(Append(rdllist, f)) = Range(rdllist) \cup {f}
        /\ IsInjective(Append(rdllist, f))
    BY <1>1, <1>3, <1>5, AppendMembers DEF Linked
  <2>3. Range(txlist) \cap Range(rdllist') = {}
    BY <1>3, <1>5, <2>1, <2>2 DEF Linked
  <2>4. IsInjective(txlist \o rdllist')
    BY <1>1, <1>3, <2>1, <2>2, <2>3, ConcatMembers
  <2>5. ws' \subseteq Files
    BY <1>1, <1>5 DEF Link, StayAwake
  <2> QED BY <2>1, <2>2, <2>4, <2>5
<1> QED BY <1>4, <1>5

-----------------------------------------------------------------------------
(* The files.                                                               *)

LEMMA ArriveKeeps ==
  ASSUME IInv, NEW f \in Files, NEW b \in Bits, Arrive(f, b)
  PROVE  IInv'
<1> USE DEF Arrive, files, lists, tasks, power
<1>1. /\ UNCHANGED << hooked, item, lists, mtx, tasks, pc, arg, power, shots >>
      /\ wakes \subseteq wakes' /\ fresh \subseteq fresh'
  OBVIOUS
<1>2. \A g \in Files, c \in Bits :
         c \in ready'[g] => c \in ready[g] \/ << g, c >> \in wakes'
  BY DEF IInv, TypeOK
<1>3. \A g \in Files, c \in Bits :
         << g, c >> \in fresh' => << g, c >> \in fresh \/ << g, c >> \in wakes'
  OBVIOUS
<1>4. TypeOK'
  <2>1. left' \in [arrivals : 0 .. MaxArrivals, ctl : 0 .. MaxCtl]
    BY EpollAssumption DEF IInv, TypeOK
  <2> QED BY <2>1 DEF IInv, TypeOK
<1>5. item \in [DOMAIN item -> Armed] /\ DOMAIN item \subseteq Files /\ hooked \subseteq DOMAIN item
  BY DEF IInv, TypeOK, ListsHoldLive
<1>6. \A g \in DOMAIN item : ItemPoll(g) \subseteq Bits /\ ItemPoll(g)' \subseteq Bits
  BY <1>1, <1>5 DEF ItemPoll, Armed
<1>7. \A g \in DOMAIN item : \A c \in ItemPoll(g)' : c \in ItemPoll(g) \/ << g, c >> \in wakes'
  BY <1>1, <1>2, <1>5, <1>6 DEF ItemPoll
<1>8. \A g : /\ Queued(g)' <=> Queued(g)
             /\ InHand(g)' <=> InHand(g)
             /\ Linked(g)' <=> Linked(g)
  BY <1>1 DEF Queued, Linked, InHand
<1>9. HolderIsBusy' /\ ListsOfScan' /\ Waiters' /\ HookedUnlessFreed'
  BY <1>1 DEF IInv, HolderIsBusy, ListsOfScan, Waiters, HookedUnlessFreed
<1>10. InSection'
  BY <1>1, <1>8 DEF IInv, InSection
<1>11. LookIsCovered'
  <2> SUFFICES ASSUME NEW t \in Threads, pc[t] = "link", NEW c \in ItemPoll(arg[t].f)'
               PROVE  c \in arg[t].rev \/ Queued(arg[t].f) \/ << arg[t].f, c >> \in wakes'
    BY <1>1, <1>8 DEF LookIsCovered, ItemPoll
  <2>1. arg[t].f \in DOMAIN item
    BY <1>5 DEF IInv, InSection
  <2> QED BY <1>1, <1>7, <2>1 DEF IInv, LookIsCovered
<1>12. ReportIsCovered'
  <2> SUFFICES ASSUME NEW t \in Threads, pc[t] = "report", NEW c \in ItemPoll(arg[t].f)',
                      << arg[t].f, c >> \in fresh'
               PROVE  Queued(arg[t].f) \/ << arg[t].f, c >> \in wakes'
    BY <1>1, <1>8 DEF ReportIsCovered, ItemPoll
  <2>1. arg[t].f \in DOMAIN item
    BY DEF IInv, InSection
  <2> QED BY <1>1, <1>3, <1>5, <1>6, <1>7, <2>1 DEF IInv, ReportIsCovered
<1>13. OneShotSpent' /\ OverflowHeld'
  BY <1>1 DEF IInv, OneShotSpent, OverflowHeld
<1>14. ListsHoldLive'
  BY <1>1, <1>8 DEF IInv, ListsHoldLive
<1>15. ReadyIsQueued'
  <2> SUFFICES ASSUME NEW g \in DOMAIN item, NEW c \in ItemPoll(g)',
                      item[g].how = "edge" => << g, c >> \in fresh'
               PROVE  Queued(g) \/ InHand(g) \/ << g, c >> \in wakes'
    BY <1>1, <1>8 DEF ReadyIsQueued, ItemPoll
  <2> QED BY <1>1, <1>3, <1>5, <1>6, <1>7 DEF IInv, ReadyIsQueued
<1>16. NoLostWakeup'
  BY <1>1 DEF IInv, NoLostWakeup
<1> QED BY <1>4, <1>9, <1>10, <1>11, <1>12, <1>13, <1>14, <1>15, <1>16 DEF IInv

LEMMA ConsumeKeeps ==
  ASSUME IInv, NEW f \in Files, NEW b \in Bits, Consume(f, b)
  PROVE  IInv'
<1> USE DEF Consume, files, lists, tasks, power, trace
<1>1. UNCHANGED << wakes, hooked, item, lists, mtx, tasks, pc, arg, power, left, trace >>
  OBVIOUS
<1>2. \A g \in Files : ready'[g] \subseteq ready[g]
  BY DEF IInv, TypeOK
<1>3. TypeOK'
  BY DEF IInv, TypeOK
<1>4. \A g \in Files : ItemPoll(g)' \subseteq ItemPoll(g)
  BY <1>1, <1>2 DEF ItemPoll
<1>5. \A g : /\ Queued(g)' <=> Queued(g)
             /\ InHand(g)' <=> InHand(g)
             /\ Linked(g)' <=> Linked(g)
  BY <1>1 DEF Queued, Linked, InHand
<1>6. DOMAIN item \subseteq Files /\ hooked \subseteq Files
  BY DEF IInv, TypeOK
<1>7. HolderIsBusy' /\ ListsOfScan' /\ Waiters' /\ HookedUnlessFreed'
  BY <1>1 DEF IInv, HolderIsBusy, ListsOfScan, Waiters, HookedUnlessFreed
<1>8. InSection'
  BY <1>1, <1>5 DEF IInv, InSection
<1>9. LookIsCovered'
  <2> SUFFICES ASSUME NEW t \in Threads, pc[t] = "link", NEW c \in ItemPoll(arg[t].f)'
               PROVE  c \in arg[t].rev \/ Queued(arg[t].f) \/ << arg[t].f, c >> \in wakes
    BY <1>1, <1>5 DEF LookIsCovered, ItemPoll
  <2>1. arg[t].f \in Files
    BY <1>6 DEF IInv, InSection
  <2> QED BY <1>4, <2>1 DEF IInv, LookIsCovered
<1>10. ReportIsCovered'
  <2> SUFFICES ASSUME NEW t \in Threads, pc[t] = "report", NEW c \in ItemPoll(arg[t].f)',
                      << arg[t].f, c >> \in fresh
               PROVE  Queued(arg[t].f) \/ << arg[t].f, c >> \in wakes
    BY <1>1, <1>5 DEF ReportIsCovered, ItemPoll
  <2>1. arg[t].f \in Files
    BY <1>6 DEF IInv, InSection
  <2> QED BY <1>4, <2>1 DEF IInv, ReportIsCovered
<1>11. OneShotSpent' /\ OverflowHeld'
  BY <1>1 DEF IInv, OneShotSpent, OverflowHeld
<1>12. ListsHoldLive'
  BY <1>1, <1>5 DEF IInv, ListsHoldLive
<1>13. ReadyIsQueued'
  <2> SUFFICES ASSUME NEW g \in DOMAIN item, NEW c \in ItemPoll(g)',
                      item[g].how = "edge" => << g, c >> \in fresh
               PROVE  Queued(g) \/ InHand(g) \/ << g, c >> \in wakes
    BY <1>1, <1>5 DEF ReadyIsQueued, ItemPoll
  <2> QED BY <1>4, <1>6 DEF IInv, ReadyIsQueued
<1>14. NoLostWakeup'
  BY <1>1 DEF IInv, NoLostWakeup
<1> QED BY <1>3, <1>7, <1>8, <1>9, <1>10, <1>11, <1>12, <1>13, <1>14 DEF IInv

\* A callback takes nothing off a list, and the event it was for is queued then, unless
\* nobody is to hear of it.
LEMMA PollCallbackKeeps ==
  ASSUME IInv, NEW f \in Files, NEW b \in Bits, PollCallback(f, b)
  PROVE  IInv'
<1>1. /\ UNCHANGED << ready, hooked, item, txlist, mtx, wq, pc, arg, left, fresh, shots >>
      /\ wakes' = wakes \ {<< f, b >>}
  BY DEF PollCallback, trace
<1>2. /\ hooked \subseteq DOMAIN item /\ DOMAIN item \subseteq Files
      /\ item \in [DOMAIN item -> Armed]
      /\ rdllist \in Seq(Files) /\ txlist \in Seq(Files) /\ ws \subseteq Files /\ epws \in BOOLEAN
      /\ wq \in Seq(Threads) /\ asleep \subseteq Range(wq) /\ Range(wq) = {t \in Threads : pc[t] = "wait"}
  BY DEF IInv, TypeOK, ListsHoldLive, Waiters
<1> DEFINE Safe == /\ rdllist' \in Seq(Files) /\ (ovflist' = Unactive \/ ovflist' \in Seq(Files))
                   /\ ws' \subseteq Files /\ epws' \in BOOLEAN /\ asleep' \subseteq asleep
                   /\ ovflist' # Unactive <=> ovflist # Unactive
                   /\ IsInjective(txlist \o rdllist')
                   /\ ovflist' # Unactive => IsInjective(ovflist')
                   /\ \A g \in Files : Queued(g) => Queued(g)'
                   /\ \A g \in Files : Queued(g)' => g \in DOMAIN item
                   /\ ovflist # Unactive => \A g \in Files : Linked(g)' <=> Linked(g)
                   /\ f \in hooked /\ b \in item[f].events => Queued(f)'
                   /\ OverflowHeld'
                   /\ NoLostWakeup'
<1>3. ASSUME f \notin hooked \/ b \notin item[f].events
      PROVE  Safe
  <2>1. UNCHANGED << rdllist, ovflist, power, asleep >>
    BY <1>3 DEF PollCallback
  <2>2. \A g : (Queued(g)' <=> Queued(g)) /\ (Linked(g)' <=> Linked(g))
    BY <1>1, <2>1 DEF Queued, Linked
  <2>3. OverflowHeld' /\ NoLostWakeup'
    BY <1>1, <2>1 DEF IInv, OverflowHeld, NoLostWakeup, power
  <2> QED BY <1>2, <1>3, <2>1, <2>2, <2>3 DEF power, IInv, ListsHoldLive, TypeOK
<1>4. ASSUME f \in hooked, b \in item[f].events, ovflist # Unactive
      PROVE  Safe
  <2>1. /\ ovflist' = Overflowed(f)
        /\ epws' = (epws \/ (item[f].wake /\ f \notin Range(ovflist)))
        /\ UNCHANGED << rdllist, ws, asleep >>
    BY <1>4 DEF PollCallback
  <2>2. /\ ovflist \in Seq(Files) /\ IsInjective(ovflist)
    BY <1>4 DEF IInv, TypeOK, ListsHoldLive
  <2>3. /\ ovflist' \in Seq(Files) /\ IsInjective(ovflist')
        /\ Range(ovflist') = Range(ovflist) \cup {f}
    <3>1. CASE f \in Range(ovflist)
      BY <2>1, <2>2, <3>1 DEF Overflowed
    <3>2. CASE f \notin Range(ovflist)
      BY <2>1, <2>2, <3>2, PushMembers DEF Overflowed
    <3> QED BY <3>1, <3>2
  <2>4. ovflist' # Unactive
    BY <2>3, NotUnactive
  <2>5. \A g : /\ Linked(g)' <=> Linked(g)
               /\ Queued(g)' <=> Queued(g) \/ g = f
    BY <1>1, <1>4, <2>1, <2>3, <2>4 DEF Queued, Linked
  <2>6. OverflowHeld'
    <3> SUFFICES ASSUME NEW g \in Range(ovflist'), item[g].wake PROVE epws'
      BY <1>1 DEF OverflowHeld
    <3>1. CASE g \in Range(ovflist)
      BY <1>4, <2>1, <3>1 DEF IInv, OverflowHeld
    <3>2. CASE g \notin Range(ovflist)
      BY <2>1, <2>3, <3>2
    <3> QED BY <3>1, <3>2
  <2>7. NoLostWakeup'
    BY <1>1, <2>1 DEF IInv, NoLostWakeup
  <2>8. epws' \in BOOLEAN
    BY <2>1
  <2>9. \A g \in Files : Queued(g)' => g \in DOMAIN item
    BY <1>2, <1>4, <2>5 DEF IInv, ListsHoldLive
  <2> QED
    BY <1>2, <1>4, <2>1, <2>3, <2>4, <2>5, <2>6, <2>7, <2>8, <2>9 DEF IInv, ListsHoldLive
<1>5. ASSUME f \in hooked, b \in item[f].events, ovflist = Unactive
      PROVE  Safe
  <2>1. Link(f) /\ WakeOne /\ UNCHANGED << ovflist, epws >>
    BY <1>5 DEF PollCallback
  <2>2. /\ rdllist' \in Seq(Files)
        /\ Range(rdllist') \cup Range(txlist) = Range(rdllist) \cup Range(txlist) \cup {f}
        /\ IsInjective(txlist \o rdllist') /\ ws' \subseteq Files
    <3>1. f \in DOMAIN item /\ txlist' = txlist
      BY <1>1, <1>2, <1>5
    <3> QED BY <2>1, <3>1, LinkLinks
  <2>3. \A g : Queued(g)' <=> Queued(g) \/ g = f
    BY <1>1, <1>5, <2>1, <2>2 DEF Queued, Linked
  <2>4. asleep' \subseteq asleep /\ (asleep # {} => \E t \in asleep : t \notin asleep')
    BY <2>1, WakeOneWakes
  <2>5. NoLostWakeup'
    <3> SUFFICES ASSUME asleep' # {}
                 PROVE  \E t \in Threads : pc[t] = "wait" /\ t \notin asleep'
      BY <1>1 DEF NoLostWakeup
    <3> QED BY <1>2, <2>4
  <2>6. OverflowHeld'
    BY <1>5, <2>1 DEF OverflowHeld
  <2>7. \A g \in Files : Queued(g)' => g \in DOMAIN item
    BY <1>2, <1>5, <2>3 DEF IInv, ListsHoldLive
  <2> QED
    BY <1>2, <1>5, <2>1, <2>2, <2>3, <2>4, <2>5, <2>6, <2>7
<1>6. Safe
  BY <1>3, <1>4, <1>5
<1> HIDE DEF Safe
<1>7. /\ rdllist' \in Seq(Files) /\ (ovflist' = Unactive \/ ovflist' \in Seq(Files))
      /\ ws' \subseteq Files /\ epws' \in BOOLEAN /\ asleep' \subseteq asleep
      /\ ovflist' # Unactive <=> ovflist # Unactive
  BY <1>6 DEF Safe
<1>8. TypeOK'
  BY <1>1, <1>2, <1>7 DEF IInv, TypeOK
<1>9. HolderIsBusy' /\ Waiters' /\ HookedUnlessFreed' /\ OneShotSpent'
  BY <1>1 DEF IInv, HolderIsBusy, Waiters, HookedUnlessFreed, OneShotSpent
<1>10. ListsOfScan'
  BY <1>1, <1>7 DEF IInv, ListsOfScan
<1>11. InSection'
  <2>1. ASSUME NEW t \in Threads, pc[t] = "report", NEW g, g = arg[t].f PROVE ~Linked(g)'
    <3>1. ovflist # Unactive
      BY <2>1 DEF IInv, ListsOfScan, Scanning
    <3>2. g \in Files /\ ~Linked(g)
      BY <1>2, <2>1 DEF IInv, InSection
    <3> QED BY <1>6, <3>1, <3>2 DEF Safe
  <2> QED BY <1>1, <2>1 DEF IInv, InSection, Linked
<1>12. \A g \in DOMAIN item : \A c \in ItemPoll(g) :
          << g, c >> \in wakes => << g, c >> \in wakes' \/ Queued(g)' \/ g \notin hooked
  BY <1>1, <1>6 DEF Safe, ItemPoll
<1>13. \A g \in DOMAIN item : Queued(g) => Queued(g)'
  BY <1>2, <1>6 DEF Safe
<1>14. LookIsCovered'
  <2> SUFFICES ASSUME NEW t \in Threads, pc[t] = "link",
                      NEW g, g = arg[t].f, NEW c \in ItemPoll(g)
               PROVE  c \in arg[t].rev \/ Queued(g)' \/ << g, c >> \in wakes'
    BY <1>1 DEF LookIsCovered, ItemPoll, Queued, Linked
  <2>1. g \in hooked /\ g \in DOMAIN item
    BY <1>2 DEF IInv, InSection
  <2>2. c \in arg[t].rev \/ Queued(g) \/ << g, c >> \in wakes
    BY DEF IInv, LookIsCovered
  <2> QED BY <1>12, <1>13, <2>1, <2>2
<1>15. \A t \in Threads : pc[t] = "report" => arg[t].f \in hooked
  <2> SUFFICES ASSUME NEW t \in Threads, pc[t] = "report", arg[t].f \notin hooked PROVE FALSE
    OBVIOUS
  <2>1. PICK u \in Threads : pc[u] = "free"
    BY DEF IInv, InSection, HookedUnlessFreed
  <2> QED BY <2>1, Exclusion DEF Locked, Pcs
<1>16. ReportIsCovered'
  <2> SUFFICES ASSUME NEW t \in Threads, pc[t] = "report",
                      NEW g, g = arg[t].f, NEW c \in ItemPoll(g), << g, c >> \in fresh
               PROVE  Queued(g)' \/ << g, c >> \in wakes'
    BY <1>1 DEF ReportIsCovered, ItemPoll, Queued, Linked
  <2>1. g \in hooked /\ g \in DOMAIN item
    BY <1>2, <1>15
  <2>2. Queued(g) \/ << g, c >> \in wakes
    BY DEF IInv, ReportIsCovered
  <2> QED BY <1>12, <1>13, <2>1, <2>2
<1>17. ReadyIsQueued'
  <2> SUFFICES ASSUME NEW g \in DOMAIN item, NEW c \in ItemPoll(g),
                      item[g].how = "edge" => << g, c >> \in fresh
               PROVE  Queued(g)' \/ InHand(g) \/ << g, c >> \in wakes'
    BY <1>1 DEF ReadyIsQueued, ItemPoll, InHand
  <2>1. Queued(g) \/ InHand(g) \/ << g, c >> \in wakes
    BY DEF IInv, ReadyIsQueued
  <2>2. g \notin hooked => InHand(g)
    BY DEF IInv, HookedUnlessFreed, InHand
  <2> QED BY <1>12, <1>13, <2>1, <2>2
<1>18. ListsHoldLive'
  <2>1. \A g \in Files : g \in hooked' \/ Queued(g)' => g \in DOMAIN item'
    BY <1>1, <1>2, <1>6 DEF Safe
  <2> QED BY <1>1, <1>6, <2>1 DEF Safe, ListsHoldLive
<1>19. OverflowHeld' /\ NoLostWakeup'
  BY <1>6 DEF Safe
<1> QED BY <1>8, <1>9, <1>10, <1>11, <1>14, <1>16, <1>17, <1>18, <1>19 DEF IInv

-----------------------------------------------------------------------------
(* epoll_wait.                                                              *)

\* A step of a thread outside the sections changes nothing but who waits.
LEMMA WaitingKeeps ==
  ASSUME IInv, NEW t \in Threads,
         UNCHANGED << files, hooked, item, lists, mtx, power, left, trace >>,
         pc[t] \notin Locked, pc'[t] \notin Locked,
         pc' \in [Threads -> Pcs], arg' \in [Threads -> Frame],
         \A u \in Threads : u # t => pc'[u] = pc[u] /\ arg'[u] = arg[u],
         wq' \in Seq(Threads), asleep' \subseteq Range(wq'), Waiters', NoLostWakeup'
  PROVE  IInv'
<1>1. /\ UNCHANGED << ready, wakes, hooked, item, rdllist, ovflist, txlist, mtx >>
      /\ UNCHANGED << ws, epws, left, fresh, shots >>
  BY DEF files, lists, power, trace
<1>2. \A u \in Threads : pc[u] \in Locked \/ pc'[u] \in Locked
                            => pc'[u] = pc[u] /\ arg'[u] = arg[u]
  OBVIOUS
<1>3. TypeOK'
  BY <1>1, <1>2 DEF IInv, TypeOK
<1>4. HolderIsBusy'
  BY <1>1, <1>2 DEF IInv, HolderIsBusy
<1>5. ListsOfScan'
  BY <1>1, <1>2 DEF IInv, ListsOfScan, Scanning, Locked, Pcs
<1>6. \A g : /\ Queued(g)' <=> Queued(g)
             /\ Linked(g)' <=> Linked(g)
             /\ InHand(g)' <=> InHand(g)
  BY <1>1, <1>2 DEF Queued, Linked, InHand, Locked, Pcs
<1>7. InSection'
  <2> SUFFICES ASSUME NEW u \in Threads, pc'[u] \in {"poll", "link", "free", "report"}
               PROVE  /\ pc'[u] \in {"poll", "link"} => arg'[u].f \in hooked
                      /\ pc'[u] = "free" => arg'[u].f \in DOMAIN item \ hooked
                      /\ pc'[u] = "report" => /\ arg'[u].f \in DOMAIN item
                                              /\ ~Linked(arg[u].f)
                                              /\ arg'[u].n < MaxEvents
                                              /\ item[arg'[u].f].events # {}
    BY <1>1, <1>2, <1>6 DEF InSection, Locked, Pcs, Linked
  <2> QED BY <1>2 DEF IInv, InSection, Locked, Pcs
<1>8. HookedUnlessFreed'
  BY <1>1, <1>2 DEF IInv, HookedUnlessFreed, Locked, Pcs
<1>9. LookIsCovered'
  BY <1>1, <1>2 DEF IInv, LookIsCovered, ItemPoll, Queued, Linked, Locked, Pcs
<1>10. ReportIsCovered'
  BY <1>1, <1>2 DEF IInv, ReportIsCovered, ItemPoll, Queued, Linked, Locked, Pcs
<1>11. OneShotSpent' /\ OverflowHeld'
  BY <1>1 DEF IInv, OneShotSpent, OverflowHeld
<1>12. ListsHoldLive'
  BY <1>1, <1>6 DEF IInv, ListsHoldLive
<1>13. ReadyIsQueued'
  BY <1>1, <1>6 DEF IInv, ReadyIsQueued, ItemPoll
<1> QED
  BY <1>3, <1>4, <1>5, <1>7, <1>8, <1>9, <1>10, <1>11, <1>12, <1>13 DEF IInv

LEMMA EpollWaitKeeps ==
  ASSUME IInv, NEW t \in Threads, EpollWait(t)
  PROVE  IInv'
<1>1. /\ UNCHANGED << files, hooked, item, lists, mtx, tasks, power, left, trace >>
      /\ pc[t] = "user"
      /\ \/ Goto(t, "fetch") /\ UNCHANGED arg
         \/ arg' = [arg EXCEPT ![t].timed = TRUE] /\ Goto(t, "lock")
  BY DEF EpollWait
<1>2. PICK l \in {"fetch", "lock"} : Goto(t, l)
  BY <1>1
<1>3. /\ pc' \in [Threads -> Pcs] /\ pc'[t] = l
      /\ \A u \in Threads : u # t => pc'[u] = pc[u]
  BY <1>2, GotoMoves DEF IInv, Pcs
<1>4. /\ arg' \in [Threads -> Frame]
      /\ \A u \in Threads : u # t => arg'[u] = arg[u]
  <2>1. CASE UNCHANGED arg
    BY <2>1 DEF IInv, TypeOK
  <2>2. CASE arg' = [arg EXCEPT ![t].timed = TRUE]
    BY <2>2, FlagMoves DEF IInv
  <2> QED BY <1>1, <2>1, <2>2
<1>5. Waiters'
  BY <1>1, <1>3 DEF IInv, Waiters, tasks
<1>6. NoLostWakeup'
  <2>1. rdllist' = rdllist /\ asleep' = asleep
    BY <1>1 DEF lists, tasks
  <2> QED BY <1>1, <1>3, <2>1 DEF IInv, NoLostWakeup
<1> QED
  BY <1>1, <1>3, <1>4, <1>5, <1>6, WaitingKeeps DEF IInv, TypeOK, Locked, tasks

LEMMA PollEpollKeeps ==
  ASSUME IInv, NEW t \in Threads, PollEpoll(t)
  PROVE  IInv'
<1>1. /\ UNCHANGED << files, hooked, item, lists, mtx, tasks, power, left, trace >>
      /\ pc[t] = "user" /\ Goto(t, "lock")
      /\ arg' = [arg EXCEPT ![t].reads = TRUE]
  BY DEF PollEpoll
<1>2. /\ pc' \in [Threads -> Pcs] /\ pc'[t] = "lock"
      /\ \A u \in Threads : u # t => pc'[u] = pc[u]
  BY <1>1, GotoMoves DEF IInv, Pcs
<1>3. /\ arg' \in [Threads -> Frame]
      /\ \A u \in Threads : u # t => arg'[u] = arg[u]
  BY <1>1, FlagMoves DEF IInv
<1>4. Waiters'
  BY <1>1, <1>2 DEF IInv, Waiters, tasks
<1>5. NoLostWakeup'
  BY <1>2 DEF NoLostWakeup
<1> QED
  BY <1>1, <1>2, <1>3, <1>4, <1>5, WaitingKeeps DEF IInv, TypeOK, Locked, tasks

\* Joining the queue comes with the look at the lists, under ep->lock.
LEMMA FetchEventsKeeps ==
  ASSUME IInv, NEW t \in Threads, FetchEvents(t)
  PROVE  IInv'
<1>1. /\ UNCHANGED << files, hooked, item, lists, mtx, arg, power, left, trace >>
      /\ pc[t] = "fetch"
  BY DEF FetchEvents
<1>2. wq \in Seq(Threads) /\ asleep \subseteq Range(wq)
  BY DEF IInv, TypeOK
<1>3. CASE Available
  <2>1. /\ UNCHANGED tasks /\ pc' \in [Threads -> Pcs] /\ pc'[t] = "lock"
        /\ \A u \in Threads : u # t => pc'[u] = pc[u]
    BY <1>3, GotoMoves DEF FetchEvents, IInv, Pcs
  <2>2. Waiters'
    BY <1>1, <2>1 DEF IInv, Waiters, tasks
  <2>3. NoLostWakeup'
    BY <2>1 DEF NoLostWakeup
  <2> QED
    BY <1>1, <1>2, <2>1, <2>2, <2>3, WaitingKeeps DEF IInv, TypeOK, Locked, tasks
<1>4. CASE ~Available
  <2>1. /\ wq' = << t >> \o wq /\ asleep' = asleep \cup {t}
        /\ pc' \in [Threads -> Pcs] /\ pc'[t] = "wait"
        /\ \A u \in Threads : u # t => pc'[u] = pc[u]
    BY <1>4, GotoMoves DEF FetchEvents, IInv, Pcs
  <2>2. t \notin Range(wq) /\ IsInjective(wq)
    BY <1>1 DEF IInv, Waiters
  <2>3. /\ wq' \in Seq(Threads) /\ Range(wq') = Range(wq) \cup {t} /\ IsInjective(wq')
    BY <1>2, <2>1, <2>2, PushMembers
  <2>4. Waiters'
    BY <2>1, <2>3 DEF IInv, Waiters
  <2>5. asleep' \subseteq Range(wq')
    BY <1>2, <2>1, <2>3
  <2>6. NoLostWakeup'
    BY <1>1, <1>4 DEF NoLostWakeup, Available, lists
  <2> QED
    BY <1>1, <2>1, <2>3, <2>4, <2>5, <2>6, WaitingKeeps DEF IInv, TypeOK, Locked
<1> QED BY <1>3, <1>4

\* The timer and a signal wake their own task only.
LEMMA TimeoutKeeps ==
  ASSUME IInv, NEW t \in Threads, Timeout(t)
  PROVE  IInv'
<1>1. /\ UNCHANGED << files, hooked, item, lists, mtx, wq, pc, power, left, trace >>
      /\ pc[t] = "wait" /\ asleep' = asleep \ {t}
      /\ arg' = [arg EXCEPT ![t].timed = TRUE]
  BY DEF Timeout
<1>2. /\ arg' \in [Threads -> Frame] /\ \A u \in Threads : u # t => arg'[u] = arg[u]
  BY <1>1, FlagMoves DEF IInv
<1>3. Waiters'
  BY <1>1 DEF IInv, Waiters
<1>4. NoLostWakeup'
  BY <1>1 DEF NoLostWakeup
<1> QED
  BY <1>1, <1>2, <1>3, <1>4, WaitingKeeps DEF IInv, TypeOK, Locked

LEMMA SignalKeeps ==
  ASSUME IInv, NEW t \in Threads, Signal(t)
  PROVE  IInv'
<1>1. /\ UNCHANGED << files, hooked, item, lists, mtx, wq, pc, power, left, trace >>
      /\ pc[t] = "wait" /\ asleep' = asleep \ {t}
      /\ arg' = [arg EXCEPT ![t].signal = TRUE]
  BY DEF Signal
<1>2. /\ arg' \in [Threads -> Frame] /\ \A u \in Threads : u # t => arg'[u] = arg[u]
  BY <1>1, FlagMoves DEF IInv
<1>3. Waiters'
  BY <1>1 DEF IInv, Waiters
<1>4. NoLostWakeup'
  BY <1>1 DEF NoLostWakeup
<1> QED
  BY <1>1, <1>2, <1>3, <1>4, WaitingKeeps DEF IInv, TypeOK, Locked

\* A woken task leaves with the events it was woken for, or sleeps again when there
\* are none.
LEMMA WokenKeeps ==
  ASSUME IInv, NEW t \in Threads, Woken(t)
  PROVE  IInv'
<1>1. /\ UNCHANGED << files, hooked, item, lists, mtx, power, left, trace >>
      /\ pc[t] = "wait" /\ t \notin asleep
  BY DEF Woken
<1>2. /\ wq \in Seq(Threads) /\ asleep \subseteq Range(wq) /\ arg \in [Threads -> Frame]
      /\ IsInjective(wq) /\ Range(wq) = {u \in Threads : pc[u] = "wait"}
  BY DEF IInv, TypeOK, Waiters
<1>3. CASE Available \/ arg[t].timed \/ arg[t].signal
  <2> DEFINE l == IF Available THEN "lock" ELSE "user"
             a == IF Available THEN [arg[t] EXCEPT !.signal = FALSE] ELSE Idle
  <2>1. /\ wq' = Keep(wq, Threads \ {t}) /\ UNCHANGED asleep
        /\ Goto(t, l) /\ arg' = [arg EXCEPT ![t] = a]
    BY <1>3 DEF Woken, IInv, TypeOK
  <2>2. l \in {"lock", "user"} /\ a \in Frame
    BY <1>2, IdleIsFrame DEF Frame
  <2>3. /\ pc' \in [Threads -> Pcs] /\ pc'[t] = l
        /\ \A u \in Threads : u # t => pc'[u] = pc[u]
    BY <2>1, <2>2, GotoMoves DEF IInv, Pcs
  <2>4. /\ arg' \in [Threads -> Frame] /\ \A u \in Threads : u # t => arg'[u] = arg[u]
    BY <2>1, <2>2, ArgMoves DEF IInv
  <2>5. /\ wq' \in Seq(Threads) /\ Range(wq') = Range(wq) \cap (Threads \ {t})
        /\ IsInjective(wq')
    BY <1>2, <2>1, KeepProperties
  <2>6. Range(wq') = {u \in Threads : pc'[u] = "wait"}
    BY <1>2, <2>2, <2>3, <2>5
  <2>7. asleep' \subseteq Range(wq')
    BY <1>1, <1>2, <2>1, <2>5
  <2>8. NoLostWakeup'
    <3>1. CASE Available
      BY <2>3, <3>1 DEF NoLostWakeup
    <3>2. CASE ~Available
      BY <1>1, <3>2 DEF NoLostWakeup, Available, lists
    <3> QED BY <3>1, <3>2
  <2>9. pc'[t] \notin Locked
    BY <2>2, <2>3 DEF Locked
  <2>10. Waiters'
    BY <2>5, <2>6 DEF Waiters
  <2> HIDE DEF l, a
  <2> QED
    BY <1>1, <2>3, <2>4, <2>5, <2>7, <2>8, <2>9, <2>10, WaitingKeeps DEF Locked
<1>4. CASE ~(Available \/ arg[t].timed \/ arg[t].signal)
  <2>1. asleep' = asleep \cup {t} /\ UNCHANGED << wq, pc, arg >>
    BY <1>4 DEF Woken
  <2>2. Waiters'
    BY <2>1 DEF IInv, Waiters
  <2>3. asleep' \subseteq Range(wq')
    BY <1>1, <1>2, <2>1
  <2>4. NoLostWakeup'
    BY <1>1, <1>4 DEF NoLostWakeup, Available, lists
  <2> QED
    BY <1>1, <1>2, <2>1, <2>2, <2>3, <2>4, WaitingKeeps DEF IInv, TypeOK, Locked
<1> QED BY <1>3, <1>4

-----------------------------------------------------------------------------
(* epoll_ctl.                                                               *)

\* A change starts when nobody is in a section.
LEMMA NobodyIn ==
  ASSUME IInv, mtx = NoOne
  PROVE  /\ \A u \in Threads : pc[u] \notin Locked
         /\ ovflist = Unactive /\ txlist = << >> /\ hooked = DOMAIN item
<1>1. \A u \in Threads : pc[u] \notin Locked
  BY Exclusion
<1>2. ovflist = Unactive /\ txlist = << >>
  BY <1>1, NoScan DEF Scanning, Locked, Pcs
<1>3. hooked \subseteq Files /\ hooked \subseteq DOMAIN item
  BY DEF IInv, ListsHoldLive, TypeOK
<1>4. DOMAIN item \subseteq hooked
  BY <1>1 DEF IInv, HookedUnlessFreed, Locked, Pcs
<1> QED BY <1>1, <1>2, <1>3, <1>4

\* It has the mutex and the file in hand then, and touches no other file.
LEMMA ChangesKeep ==
  ASSUME IInv, NEW t \in Threads, NEW f \in Files, NEW l \in {"poll", "free"},
         Changes(t, f), Goto(t, l),
         UNCHANGED << lists, tasks, epws >>, ws' \subseteq Files,
         DOMAIN item' = DOMAIN item \cup {f}, item' \in [DOMAIN item' -> Armed],
         ready' \in [Files -> SUBSET Bits], wakes' \subseteq Files \X Bits,
         hooked' \subseteq Files,
         \A g \in Files : g # f => /\ g \in DOMAIN item => item'[g] = item[g]
                                   /\ g \in hooked' <=> g \in hooked
                                   /\ ready'[g] = ready[g]
                                   /\ \A b : << g, b >> \in wakes' <=> << g, b >> \in wakes,
         l = "poll" <=> f \in hooked'
  PROVE  IInv'
<1>1. /\ pc[t] = "user" /\ mtx = NoOne /\ mtx' = t
      /\ left.ctl > 0 /\ left' = [left EXCEPT !.ctl = @ - 1]
      /\ arg' = [arg EXCEPT ![t].f = f]
      /\ shots' = [shots EXCEPT ![f] = 0]
      /\ fresh' = fresh \cup ({f} \X Bits)
      /\ UNCHANGED << rdllist, ovflist, txlist, wq, asleep, epws >>
  BY DEF Changes, Locks, lists, tasks
<1>2. /\ \A u \in Threads : pc[u] \notin Locked
      /\ ovflist = Unactive /\ txlist = << >> /\ hooked = DOMAIN item
  BY <1>1, NobodyIn
<1>3. /\ pc' \in [Threads -> Pcs] /\ pc'[t] = l
      /\ \A u \in Threads : u # t => pc'[u] = pc[u]
  BY GotoMoves DEF IInv, Pcs
<1>4. /\ arg' \in [Threads -> Frame] /\ arg'[t].f = f
      /\ \A u \in Threads : u # t => arg'[u] = arg[u]
  <2>1. arg \in [Threads -> Frame] /\ [arg[t] EXCEPT !.f = f] \in Frame
    <3>1. arg \in [Threads -> Frame]
      BY DEF IInv, TypeOK
    <3> QED BY <3>1 DEF Frame
  <2>2. arg' = [arg EXCEPT ![t] = [arg[t] EXCEPT !.f = f]]
    BY <1>1, <2>1
  <2> QED BY <2>1, <2>2 DEF Frame
<1>5. \A u \in Threads : pc'[u] \in Locked => u = t
  BY <1>2, <1>3
<1>6. /\ shots \in [Files -> 0 .. 2] /\ fresh \subseteq Files \X Bits
      /\ left \in [arrivals : 0 .. MaxArrivals, ctl : 0 .. MaxCtl] /\ DOMAIN item \subseteq Files
  BY DEF IInv, TypeOK
<1>7. /\ shots' \in [Files -> 0 .. 2] /\ shots'[f] = 0
      /\ \A g \in Files : g # f => shots'[g] = shots[g]
  BY <1>1, <1>6
<1>8. left' \in [arrivals : 0 .. MaxArrivals, ctl : 0 .. MaxCtl]
  BY <1>1, <1>6, EpollAssumption
<1>9. /\ fresh' \subseteq Files \X Bits
      /\ \A g \in Files : g # f => \A b : << g, b >> \in fresh' <=> << g, b >> \in fresh
  BY <1>1, <1>6
<1>10. TypeOK'
  <2>1. \A u \in Threads : pc'[u] \in Locked => mtx' = u
    BY <1>1, <1>5
  <2>2. DOMAIN item' \subseteq Files
    BY <1>6
  <2>3. wq' \in Seq(Threads) /\ asleep' \subseteq Range(wq') /\ rdllist' \in Seq(Files)
        /\ txlist' \in Seq(Files) /\ ovflist' = Unactive /\ epws' \in BOOLEAN
    BY <1>1, <1>2 DEF IInv, TypeOK
  <2> QED
    BY <1>1, <1>3, <1>4, <1>7, <1>8, <1>9, <2>1, <2>2, <2>3 DEF TypeOK
<1>11. HolderIsBusy'
  BY <1>1, <1>3, EpollAssumption DEF HolderIsBusy, Locked, Pcs
<1>12. ListsOfScan'
  BY <1>1, <1>2, <1>3, <1>5 DEF ListsOfScan, Scanning, Locked, Pcs
<1>13. Waiters'
  BY <1>1, <1>3 DEF IInv, Waiters
<1>14. InSection'
  BY <1>3, <1>4, <1>5 DEF InSection, Locked, Pcs
<1>15. HookedUnlessFreed'
  <2> SUFFICES ASSUME NEW g \in DOMAIN item', g \notin hooked'
               PROVE  g = f /\ l = "free"
    BY <1>3, <1>4 DEF HookedUnlessFreed
  <2> QED BY <1>2, <1>6
<1>16. LookIsCovered' /\ ReportIsCovered'
  BY <1>3, <1>5 DEF LookIsCovered, ReportIsCovered, Locked, Pcs
<1>17. OneShotSpent'
  BY <1>6, <1>7 DEF IInv, OneShotSpent
<1>18. OverflowHeld'
  BY <1>1, <1>2 DEF OverflowHeld
<1>19. \A g : (Queued(g)' <=> Queued(g)) /\ (InHand(g) => FALSE)
  BY <1>1, <1>2 DEF Queued, Linked, InHand, Locked, Pcs
<1>20. ListsHoldLive'
  <2>1. \A g \in Files : g \in hooked' \/ Queued(g)' => g \in DOMAIN item'
    BY <1>2, <1>19 DEF IInv, ListsHoldLive
  <2> QED BY <1>1, <1>2, <2>1 DEF IInv, ListsHoldLive
<1>21. ReadyIsQueued'
  <2>1. \E u \in Threads : pc'[u] \in {"report", "poll", "link", "free"} /\ arg'[u].f = f
    BY <1>3, <1>4
  <2>2. ASSUME NEW g \in DOMAIN item, g # f, NEW b \in ready'[g] \cap item'[g].events,
               item'[g].how = "edge" => << g, b >> \in fresh'
        PROVE  Queued(g) \/ << g, b >> \in wakes'
    BY <1>6, <1>9, <1>19, <2>2 DEF IInv, ReadyIsQueued, ItemPoll
  <2> QED BY <1>19, <2>1, <2>2 DEF ReadyIsQueued, ItemPoll, InHand
<1>22. NoLostWakeup'
  BY <1>1, <1>3 DEF IInv, NoLostWakeup
<1> QED
  BY <1>10, <1>11, <1>12, <1>13, <1>14, <1>15, <1>16, <1>17, <1>18, <1>20, <1>21, <1>22
     DEF IInv

\* ep_insert: the item is new, and hooked before anybody looks at the file.
LEMMA CtlAddKeeps ==
  ASSUME IInv, NEW t \in Threads, NEW f \in Files, NEW m \in Masks, CtlAdd(t, f, m)
  PROVE  IInv'
<1>1. /\ f \notin DOMAIN item /\ Changes(t, f) /\ Goto(t, "poll")
      /\ item' = Inserted(f, m) /\ hooked' = hooked \cup {f}
      /\ UNCHANGED << ready, wakes, lists, tasks, ws, epws >>
  BY DEF CtlAdd, Found, Hooked, files, power
<1>2. /\ item \in [DOMAIN item -> Armed] /\ m \in Armed /\ ready \in [Files -> SUBSET Bits]
      /\ wakes \subseteq Files \X Bits /\ hooked \subseteq Files /\ ws \subseteq Files
  BY EpollAssumption DEF IInv, TypeOK
<1>3. item' = [g \in DOMAIN item \cup {f} |-> IF g = f THEN m ELSE item[g]]
  BY <1>1 DEF Inserted
<1> QED BY <1>1, <1>2, <1>3, ChangesKeep

\* ep_modify: the mask of a hooked item.
LEMMA CtlModKeeps ==
  ASSUME IInv, NEW t \in Threads, NEW f \in Files, NEW m \in Masks, CtlMod(t, f, m)
  PROVE  IInv'
<1>1. /\ f \in DOMAIN item /\ Changes(t, f) /\ Goto(t, "poll")
      /\ item' = [item EXCEPT ![f] = m] /\ ws' = Sources(f, m)
      /\ UNCHANGED << ready, wakes, hooked, lists, tasks, epws >>
  BY DEF CtlMod, Found, files
<1>2. /\ item \in [DOMAIN item -> Armed] /\ m \in Armed /\ ready \in [Files -> SUBSET Bits]
      /\ wakes \subseteq Files \X Bits /\ hooked \subseteq Files /\ ws \subseteq Files
  BY EpollAssumption DEF IInv, TypeOK
<1>3. f \in hooked
  BY <1>1, NobodyIn DEF Changes, Locks
<1>4. item' = [g \in DOMAIN item \cup {f} |-> IF g = f THEN m ELSE item[g]]
  BY <1>1, <1>2
<1>5. ws' \subseteq Files
  BY <1>1, <1>2 DEF Sources
<1> QED BY <1>1, <1>2, <1>3, <1>4, <1>5, ChangesKeep

\* ep_remove: the hook goes first, and with it the callbacks.
LEMMA CtlDelKeeps ==
  ASSUME IInv, NEW t \in Threads, NEW f \in Files, CtlDel(t, f)
  PROVE  IInv'
<1>1. /\ f \in DOMAIN item /\ Changes(t, f) /\ Goto(t, "free")
      /\ hooked' = hooked \ {f}
      /\ UNCHANGED << ready, wakes, item, lists, tasks, ws, epws >>
  BY DEF CtlDel, Found, Unhooked, files, power
<1>2. /\ item \in [DOMAIN item -> Armed] /\ ready \in [Files -> SUBSET Bits]
      /\ wakes \subseteq Files \X Bits /\ hooked \subseteq Files /\ ws \subseteq Files
  BY DEF IInv, TypeOK
<1>3. DOMAIN item' = DOMAIN item \cup {f}
  BY <1>1
<1> QED BY <1>1, <1>2, <1>3, ChangesKeep

LEMMA ReleaseFileKeeps ==
  ASSUME IInv, NEW t \in Threads, NEW f \in Files, ReleaseFile(t, f)
  PROVE  IInv'
<1>1. /\ f \in DOMAIN item /\ Changes(t, f) /\ Goto(t, "free")
      /\ hooked' = hooked \ {f}
      /\ ready' = [ready EXCEPT ![f] = {}] /\ wakes' = {w \in wakes : w[1] # f}
      /\ UNCHANGED << item, lists, tasks, ws, epws >>
  BY DEF ReleaseFile, Found, Unhooked, power
<1>2. /\ item \in [DOMAIN item -> Armed] /\ ready \in [Files -> SUBSET Bits]
      /\ wakes \subseteq Files \X Bits /\ hooked \subseteq Files /\ ws \subseteq Files
  BY DEF IInv, TypeOK
<1>3. DOMAIN item' = DOMAIN item \cup {f}
  BY <1>1
<1>4. /\ ready' \in [Files -> SUBSET Bits] /\ wakes' \subseteq Files \X Bits
      /\ \A g \in Files : g # f => ready'[g] = ready[g]
      /\ \A g \in Files : g # f => \A b : << g, b >> \in wakes' <=> << g, b >> \in wakes
  BY <1>1, <1>2
<1> QED BY <1>1, <1>2, <1>3, <1>4, ChangesKeep

\* The thread in a section is alone there, and what its step leaves to nobody else:
\* who holds the mutex and who waits.
LEMMA SectionStep ==
  ASSUME IInv, NEW t \in Threads, pc[t] \in Locked, NEW l \in Pcs, Goto(t, l), l # "wait",
         wq' = wq,
         IF l \in Locked THEN mtx' = mtx ELSE mtx' = NoOne
  PROVE  /\ mtx = t /\ \A u \in Threads : u # t => pc[u] \notin Locked
         /\ pc' \in [Threads -> Pcs] /\ pc'[t] = l
         /\ \A u \in Threads : u # t => pc'[u] = pc[u] /\ pc'[u] \notin Locked
         /\ mtx' \in Threads \cup {NoOne} /\ \A u \in Threads : pc'[u] \in Locked => mtx' = u
         /\ HolderIsBusy' /\ Waiters'
<1>1. mtx = t /\ \A u \in Threads : u # t => pc[u] \notin Locked
  BY Exclusion DEF IInv, TypeOK
<1>2. /\ pc' \in [Threads -> Pcs] /\ pc'[t] = l
      /\ \A u \in Threads : u # t => pc'[u] = pc[u]
  BY GotoMoves DEF IInv
<1>3. HolderIsBusy'
  BY <1>1, <1>2, EpollAssumption DEF HolderIsBusy
<1>4. Waiters'
  BY <1>2 DEF IInv, Waiters, Locked
<1> QED BY <1>1, <1>2, <1>3, <1>4

LEMMA CtlPollKeeps ==
  ASSUME IInv, NEW t \in Threads, CtlPoll(t)
  PROVE  IInv'
<1> DEFINE f == arg[t].f
<1>1. /\ pc[t] = "poll" /\ Goto(t, "link")
      /\ arg' = [arg EXCEPT ![t].rev = ItemPoll(f)]
      /\ UNCHANGED << ready, wakes, hooked, item, rdllist, ovflist, txlist, mtx, wq, asleep >>
      /\ UNCHANGED << ws, epws, left, fresh, shots >>
  BY DEF CtlPoll, files, lists, tasks, power, trace
<1>2. /\ \A u \in Threads : u # t => pc[u] \notin Locked
      /\ pc' \in [Threads -> Pcs] /\ pc'[t] = "link"
      /\ \A u \in Threads : u # t => pc'[u] = pc[u] /\ pc'[u] \notin Locked
      /\ mtx' \in Threads \cup {NoOne} /\ \A u \in Threads : pc'[u] \in Locked => mtx' = u
      /\ HolderIsBusy' /\ Waiters'
  <2>1. pc[t] \in Locked /\ "link" \in Pcs /\ "link" \in Locked
    BY <1>1 DEF Locked, Pcs
  <2> QED BY <1>1, <2>1, SectionStep
<1>3. f \in hooked /\ f \in DOMAIN item /\ item \in [DOMAIN item -> Armed] /\ arg \in [Threads -> Frame]
  BY <1>1 DEF IInv, InSection, TypeOK, ListsHoldLive
<1>4. ItemPoll(f) \subseteq Bits
  BY <1>3 DEF ItemPoll, Armed
<1>5. /\ arg' \in [Threads -> Frame] /\ arg'[t].f = f /\ arg'[t].rev = ItemPoll(f)
      /\ \A u \in Threads : u # t => arg'[u] = arg[u]
  <2>1. [arg[t] EXCEPT !.rev = ItemPoll(f)] \in Frame
    BY <1>3, <1>4 DEF Frame
  <2>2. arg' = [arg EXCEPT ![t] = [arg[t] EXCEPT !.rev = ItemPoll(f)]]
    BY <1>1, <1>3
  <2> QED BY <1>3, <2>1, <2>2, ArgMoves DEF IInv, Frame
<1> HIDE DEF f
<1>6. TypeOK'
  BY <1>1, <1>2, <1>5 DEF IInv, TypeOK
<1>7. ListsOfScan'
  BY <1>1, <1>2 DEF IInv, ListsOfScan, Scanning, Locked, Pcs
<1>8. InSection'
  <2> SUFFICES ASSUME NEW u \in Threads, pc'[u] \in {"poll", "link", "free", "report"}
               PROVE  pc'[u] = "link" /\ arg'[u].f \in hooked'
    BY DEF InSection
  <2>1. u = t
    BY <1>2 DEF Locked, Pcs
  <2> QED BY <1>1, <1>2, <1>3, <1>5, <2>1
<1>9. HookedUnlessFreed'
  BY <1>1, <1>2 DEF IInv, HookedUnlessFreed, Locked, Pcs
<1>10. LookIsCovered'
  BY <1>1, <1>2, <1>5 DEF LookIsCovered, ItemPoll, Locked, Pcs
<1>11. ReportIsCovered'
  BY <1>2 DEF ReportIsCovered, Locked, Pcs
<1>12. OneShotSpent' /\ OverflowHeld'
  BY <1>1 DEF IInv, OneShotSpent, OverflowHeld
<1>13. \A g : (Queued(g)' <=> Queued(g)) /\ (InHand(g) => InHand(g)')
  BY <1>1, <1>2, <1>5 DEF Queued, Linked, InHand, Locked, Pcs, f
<1>14. ListsHoldLive'
  BY <1>1, <1>13 DEF IInv, ListsHoldLive
<1>15. ReadyIsQueued'
  BY <1>1, <1>13 DEF IInv, ReadyIsQueued, ItemPoll
<1>16. NoLostWakeup'
  BY <1>1, <1>2 DEF IInv, NoLostWakeup
<1> QED
  BY <1>2, <1>6, <1>7, <1>8, <1>9, <1>10, <1>11, <1>12, <1>14, <1>15, <1>16 DEF IInv

\* What the look showed is in the ready list at the end of ep_insert and ep_modify.
LEMMA CtlLinkKeeps ==
  ASSUME IInv, NEW t \in Threads, CtlLink(t)
  PROVE  IInv'
<1>0. PICK f : f = arg[t].f
  OBVIOUS
<1>1. /\ pc[t] = "link" /\ Goto(t, "user") /\ mtx' = NoOne
      /\ LinkIfReady(f, arg[t].rev) /\ arg' = [arg EXCEPT ![t] = Idle]
      /\ UNCHANGED << ready, wakes, hooked, item, ovflist, txlist, wq, epws, left, fresh, shots >>
  BY <1>0 DEF CtlLink, Unlocks, files, trace
<1>2. /\ \A u \in Threads : u # t => pc[u] \notin Locked
      /\ pc' \in [Threads -> Pcs] /\ pc'[t] = "user"
      /\ \A u \in Threads : u # t => pc'[u] = pc[u] /\ pc'[u] \notin Locked
      /\ mtx' \in Threads \cup {NoOne} /\ \A u \in Threads : pc'[u] \in Locked => mtx' = u
      /\ HolderIsBusy' /\ Waiters'
  <2>1. pc[t] \in Locked /\ "user" \in Pcs /\ "user" \notin Locked
    BY <1>1 DEF Locked, Pcs
  <2> QED BY <1>1, <2>1, SectionStep
<1>3. /\ f \in hooked /\ f \in DOMAIN item /\ hooked = DOMAIN item /\ DOMAIN item \subseteq Files
      /\ ovflist = Unactive /\ txlist = << >>
  <2>1. f \in hooked /\ hooked \subseteq DOMAIN item /\ DOMAIN item \subseteq Files
    BY <1>0, <1>1 DEF IInv, InSection, TypeOK, ListsHoldLive
  <2>2. DOMAIN item \subseteq hooked
    BY <1>1, <1>2 DEF IInv, HookedUnlessFreed, Locked, Pcs
  <2>3. \A u \in Threads : pc[u] \notin Scanning
    BY <1>1, <1>2 DEF Scanning, Locked, Pcs
  <2> QED BY <2>1, <2>2, <2>3, NoScan
<1>4. /\ arg' \in [Threads -> Frame] /\ arg'[t] = Idle
      /\ \A u \in Threads : u # t => arg'[u] = arg[u]
  BY <1>1, IdleIsFrame, ArgMoves DEF IInv
<1> DEFINE Safe == /\ rdllist' \in Seq(Files) /\ IsInjective(txlist \o rdllist') /\ ws' \subseteq Files
                   /\ asleep' \subseteq asleep /\ NoLostWakeup'
                   /\ \A g : Queued(g) => Queued(g)'
                   /\ \A g : Queued(g)' => Queued(g) \/ g = f
                   /\ arg[t].rev # {} => Queued(f)'
<1>5. ASSUME arg[t].rev = {} \/ Linked(f)
      PROVE  Safe
  <2>1. UNCHANGED << rdllist, ws, asleep >>
    BY <1>1, <1>5 DEF LinkIfReady
  <2>2. NoLostWakeup'
    BY <1>1, <1>2, <2>1 DEF IInv, NoLostWakeup
  <2>3. \A g : Queued(g)' <=> Queued(g)
    BY <1>1, <2>1 DEF Queued, Linked
  <2>4. rdllist \in Seq(Files) /\ IsInjective(txlist \o rdllist) /\ ws \subseteq Files
    BY DEF IInv, TypeOK, ListsHoldLive
  <2>5. Linked(f) => Queued(f)
    BY DEF Queued
  <2> QED BY <1>5, <2>1, <2>2, <2>3, <2>4, <2>5
<1>6. ASSUME ~(arg[t].rev = {} \/ Linked(f))
      PROVE  Safe
  <2>1. Link(f) /\ WakeOne
    BY <1>1, <1>6 DEF LinkIfReady
  <2>2. /\ rdllist' \in Seq(Files)
        /\ Range(rdllist') \cup Range(txlist) = Range(rdllist) \cup Range(txlist) \cup {f}
        /\ IsInjective(txlist \o rdllist') /\ ws' \subseteq Files
    BY <1>1, <1>3, <2>1, LinkLinks
  <2>3. \A g : Queued(g)' <=> Queued(g) \/ g = f
    BY <1>1, <1>3, <2>2 DEF Queued, Linked
  <2>4. asleep' \subseteq asleep /\ (asleep # {} => \E u \in asleep : u \notin asleep')
    BY <2>1, WakeOneWakes
  <2>5. asleep \subseteq {u \in Threads : pc[u] = "wait"}
    BY DEF IInv, TypeOK, Waiters
  <2>6. asleep # {} => \E u \in Threads : pc'[u] = "wait" /\ u \notin asleep'
    BY <1>1, <1>2, <2>4, <2>5
  <2>7. NoLostWakeup'
    BY <2>4, <2>6 DEF NoLostWakeup
  <2> QED BY <2>2, <2>3, <2>4, <2>7
<1>7. Safe
  BY <1>5, <1>6
<1>8. TypeOK'
  BY <1>1, <1>2, <1>4, <1>7 DEF IInv, TypeOK
<1>9. ListsOfScan'
  BY <1>1, <1>2, <1>3 DEF ListsOfScan, Scanning, Locked, Pcs
<1>10. InSection' /\ LookIsCovered' /\ ReportIsCovered'
  BY <1>2 DEF InSection, LookIsCovered, ReportIsCovered, Locked, Pcs
<1>11. HookedUnlessFreed'
  BY <1>1, <1>3 DEF HookedUnlessFreed
<1>12. OneShotSpent' /\ OverflowHeld'
  BY <1>1 DEF IInv, OneShotSpent, OverflowHeld
<1>13. ListsHoldLive'
  <2>1. \A g \in Files : g \in hooked' \/ Queued(g)' => g \in DOMAIN item'
    BY <1>1, <1>3, <1>7 DEF IInv, ListsHoldLive
  <2> QED BY <1>1, <1>3, <1>7, <2>1 DEF ListsHoldLive
<1>14. ReadyIsQueued'
  <2> SUFFICES ASSUME NEW g \in DOMAIN item, NEW b \in ItemPoll(g),
                      item[g].how = "edge" => << g, b >> \in fresh
               PROVE  Queued(g)' \/ << g, b >> \in wakes
    BY <1>1 DEF ReadyIsQueued, ItemPoll
  <2>1. CASE g = f
    BY <1>0, <1>1, <1>7, <2>1 DEF IInv, LookIsCovered
  <2>2. CASE g # f
    <3>1. ~InHand(g)
      BY <1>0, <1>2, <2>2 DEF InHand, Locked, Pcs
    <3> QED BY <1>7, <3>1 DEF IInv, ReadyIsQueued
  <2> QED BY <2>1, <2>2
<1> QED
  BY <1>2, <1>7, <1>8, <1>9, <1>10, <1>11, <1>12, <1>13, <1>14 DEF IInv

\* A freed item is in no list: the callbacks ended with its hook, and nobody scans.
LEMMA FreeKeeps ==
  ASSUME IInv, NEW t \in Threads, Free(t)
  PROVE  IInv'
<1> DEFINE f == arg[t].f
<1>1. /\ pc[t] = "free" /\ Goto(t, "user") /\ mtx' = NoOne
      /\ rdllist' = Keep(rdllist, Files \ {f})
      /\ item' = [g \in DOMAIN item \ {f} |-> item[g]]
      /\ ws' = ws \ {f} /\ arg' = [arg EXCEPT ![t] = Idle]
      /\ UNCHANGED << ready, wakes, hooked, ovflist, txlist, wq, asleep, epws, left, fresh, shots >>
  BY DEF Free, Unlocks, Unlinked, files, tasks, trace
<1>2. /\ \A u \in Threads : u # t => pc[u] \notin Locked
      /\ pc' \in [Threads -> Pcs] /\ pc'[t] = "user"
      /\ \A u \in Threads : u # t => pc'[u] = pc[u] /\ pc'[u] \notin Locked
      /\ mtx' \in Threads \cup {NoOne} /\ \A u \in Threads : pc'[u] \in Locked => mtx' = u
      /\ HolderIsBusy' /\ Waiters'
  <2>1. pc[t] \in Locked /\ "user" \in Pcs /\ "user" \notin Locked
    BY <1>1 DEF Locked, Pcs
  <2> QED BY <1>1, <2>1, SectionStep
<1>3. /\ f \in DOMAIN item \ hooked /\ DOMAIN item \ hooked = {f} /\ DOMAIN item \subseteq Files
      /\ item \in [DOMAIN item -> Armed] /\ rdllist \in Seq(Files)
      /\ ovflist = Unactive /\ txlist = << >>
  <2>1. /\ f \in DOMAIN item \ hooked /\ DOMAIN item \subseteq Files
        /\ item \in [DOMAIN item -> Armed] /\ rdllist \in Seq(Files)
    BY <1>1 DEF IInv, InSection, TypeOK
  <2>2. \A g \in DOMAIN item \ hooked : g = f
    BY <1>1, <1>2 DEF IInv, HookedUnlessFreed, Locked, Pcs
  <2>3. \A u \in Threads : pc[u] \notin Scanning
    BY <1>1, <1>2 DEF Scanning, Locked, Pcs
  <2> QED BY <2>1, <2>2, <2>3, NoScan
<1>4. /\ arg' \in [Threads -> Frame] /\ arg'[t] = Idle
      /\ \A u \in Threads : u # t => arg'[u] = arg[u]
  BY <1>1, IdleIsFrame, ArgMoves DEF IInv
<1>5. /\ rdllist' \in Seq(Files) /\ IsInjective(rdllist')
      /\ Range(rdllist') = Range(rdllist) \ {f}
  <2>1. IsInjective(rdllist) /\ Range(rdllist) \subseteq Files
    BY <1>3, ConcatMembers, RangeProperties DEF IInv, ListsHoldLive
  <2> QED BY <1>1, <1>3, <2>1, KeepProperties
<1>6. IsInjective(txlist \o rdllist')
  BY <1>3, <1>5, ConcatMembers, EmptyProperties
<1> HIDE DEF f
<1>7. DOMAIN item' = DOMAIN item \ {f} /\ \A g \in DOMAIN item' : item'[g] = item[g]
  BY <1>1
<1>8. TypeOK'
  <2>1. DOMAIN item' \subseteq Files /\ item' \in [DOMAIN item' -> Armed] /\ ws' \subseteq Files
    BY <1>1, <1>3, <1>7 DEF IInv, TypeOK
  <2> QED BY <1>1, <1>2, <1>4, <1>5, <2>1 DEF IInv, TypeOK
<1>9. ListsOfScan'
  BY <1>1, <1>2, <1>3 DEF ListsOfScan, Scanning, Locked, Pcs
<1>10. InSection' /\ LookIsCovered' /\ ReportIsCovered'
  BY <1>2 DEF InSection, LookIsCovered, ReportIsCovered, Locked, Pcs
<1>11. HookedUnlessFreed'
  BY <1>1, <1>3, <1>7 DEF HookedUnlessFreed
<1>12. OneShotSpent' /\ OverflowHeld'
  BY <1>1, <1>3, <1>7 DEF IInv, OneShotSpent, OverflowHeld
<1>13. \A g : Queued(g)' <=> Queued(g) /\ g # f
  BY <1>1, <1>3, <1>5, EmptyProperties DEF Queued, Linked
<1>14. ListsHoldLive'
  <2>1. \A g \in Files : g \in hooked' \/ Queued(g)' => g \in DOMAIN item'
    BY <1>1, <1>3, <1>7, <1>13 DEF IInv, ListsHoldLive
  <2> QED BY <1>1, <1>3, <1>6, <2>1 DEF ListsHoldLive
<1>15. ReadyIsQueued'
  <2> SUFFICES ASSUME NEW g \in DOMAIN item, g # f, NEW b \in ItemPoll(g),
                      item[g].how = "edge" => << g, b >> \in fresh
               PROVE  Queued(g) \/ << g, b >> \in wakes
    BY <1>1, <1>7, <1>13 DEF ReadyIsQueued, ItemPoll
  <2>1. ~InHand(g)
    BY <1>2 DEF InHand, Locked, Pcs, f
  <2> QED BY <2>1 DEF IInv, ReadyIsQueued
<1>16. NoLostWakeup'
  <2>1. rdllist' # << >> => rdllist # << >>
    BY <1>3, <1>5, RangeProperties
  <2> QED BY <1>1, <1>2, <2>1 DEF IInv, NoLostWakeup
<1> QED
  BY <1>2, <1>8, <1>9, <1>10, <1>11, <1>12, <1>14, <1>15, <1>16 DEF IInv

-----------------------------------------------------------------------------
(* ep_scan_ready_list.                                                      *)

\* While somebody scans, the three lists hold live items, none of which is about to
\* be freed, and no file is in two of the first two.
LEMMA InScan ==
  ASSUME IInv, NEW t \in Threads, pc[t] \in Scanning
  PROVE  /\ mtx = t /\ \A u \in Threads : u # t => pc[u] \notin Locked
         /\ ovflist # Unactive /\ ovflist \in Seq(Files) /\ IsInjective(ovflist)
         /\ rdllist \in Seq(Files) /\ txlist \in Seq(Files)
         /\ IsInjective(txlist) /\ IsInjective(rdllist)
         /\ Range(txlist) \cap Range(rdllist) = {}
         /\ Range(txlist) \subseteq DOMAIN item /\ Range(rdllist) \subseteq DOMAIN item
         /\ Range(ovflist) \subseteq DOMAIN item
         /\ DOMAIN item \subseteq Files /\ hooked = DOMAIN item
         /\ item \in [DOMAIN item -> Armed]
<1>1. mtx = t /\ \A u \in Threads : u # t => pc[u] \notin Locked
  BY Exclusion DEF IInv, TypeOK, Scanning, Locked, Pcs
<1>2. ovflist # Unactive /\ ovflist \in Seq(Files) /\ IsInjective(ovflist)
  BY OverflowList DEF IInv, ListsOfScan, ListsHoldLive
<1>3. /\ rdllist \in Seq(Files) /\ txlist \in Seq(Files) /\ DOMAIN item \subseteq Files
      /\ item \in [DOMAIN item -> Armed]
  BY DEF IInv, TypeOK
<1>4. /\ IsInjective(txlist) /\ IsInjective(rdllist)
      /\ Range(txlist) \cap Range(rdllist) = {}
  BY <1>3, ConcatMembers DEF IInv, ListsHoldLive
<1>5. Range(txlist) \subseteq Files /\ Range(rdllist) \subseteq Files /\ Range(ovflist) \subseteq Files
  BY <1>2, <1>3, RangeProperties
<1>6. /\ Range(txlist) \subseteq DOMAIN item /\ Range(rdllist) \subseteq DOMAIN item
      /\ Range(ovflist) \subseteq DOMAIN item
  BY <1>2, <1>5 DEF IInv, ListsHoldLive, Queued, Linked
<1>7. hooked = DOMAIN item
  <2>1. hooked \subseteq DOMAIN item
    BY DEF IInv, TypeOK, ListsHoldLive
  <2>2. DOMAIN item \subseteq hooked
    BY <1>1 DEF IInv, HookedUnlessFreed, Locked, Pcs, Scanning
  <2> QED BY <2>1, <2>2
<1> QED BY <1>1, <1>2, <1>3, <1>4, <1>6, <1>7

\* The stolen list is what the ready list was.
LEMMA BeginScanKeeps ==
  ASSUME IInv, NEW t \in Threads, BeginScan(t)
  PROVE  IInv'
<1>1. /\ pc[t] = "lock" /\ mtx = NoOne /\ mtx' = t
      /\ txlist' = rdllist /\ rdllist' = << >> /\ ovflist' = << >>
      /\ Goto(t, IF arg[t].reads THEN "read" ELSE "scan")
      /\ UNCHANGED << ready, wakes, hooked, item, wq, asleep, arg, ws, epws, left, fresh, shots >>
  BY DEF BeginScan, Locks, files, tasks, power, trace
<1>2. PICK l \in {"read", "scan"} : Goto(t, l)
  BY <1>1
<1>3. /\ pc' \in [Threads -> Pcs] /\ pc'[t] = l
      /\ \A u \in Threads : u # t => pc'[u] = pc[u]
  BY <1>2, GotoMoves DEF IInv, Pcs
<1>4. /\ \A u \in Threads : pc[u] \notin Locked
      /\ ovflist = Unactive /\ txlist = << >> /\ hooked = DOMAIN item
  BY <1>1, NobodyIn
<1>5. /\ rdllist \in Seq(Files) /\ IsInjective(rdllist)
  <2>1. rdllist \in Seq(Files) /\ txlist \in Seq(Files)
    BY DEF IInv, TypeOK
  <2> QED BY <2>1, ConcatMembers DEF IInv, ListsHoldLive
<1>6. /\ txlist' \in Seq(Files) /\ rdllist' \in Seq(Files) /\ ovflist' \in Seq(Files)
      /\ ovflist' # Unactive /\ IsInjective(ovflist') /\ IsInjective(rdllist')
      /\ Range(ovflist') = {} /\ Range(rdllist') = {}
  <2>1. << >> \in Seq(Files)
    OBVIOUS
  <2>2. << >> # Unactive
    BY <2>1, NotUnactive
  <2> QED BY <1>1, <1>5, <2>1, <2>2, EmptyProperties
<1>7. IsInjective(txlist' \o rdllist')
  BY <1>1, <1>5, <1>6, ConcatMembers
<1>8. \A u \in Threads : pc'[u] \in Locked => u = t
  BY <1>3, <1>4
<1>9. TypeOK'
  BY <1>1, <1>3, <1>6, <1>8 DEF IInv, TypeOK
<1>10. HolderIsBusy'
  BY <1>1, <1>3, EpollAssumption DEF HolderIsBusy, Locked, Pcs
<1>11. ListsOfScan'
  BY <1>3, <1>6 DEF ListsOfScan, Scanning
<1>12. Waiters'
  BY <1>1, <1>3 DEF IInv, Waiters
<1>13. InSection' /\ LookIsCovered' /\ ReportIsCovered'
  BY <1>3, <1>8 DEF InSection, LookIsCovered, ReportIsCovered, Locked, Pcs
<1>14. HookedUnlessFreed'
  BY <1>1, <1>4 DEF HookedUnlessFreed
<1>15. OneShotSpent'
  BY <1>1 DEF IInv, OneShotSpent
<1>16. OverflowHeld'
  BY <1>6 DEF OverflowHeld
<1>17. \A g : (Queued(g)' <=> Queued(g)) /\ ~InHand(g)
  BY <1>1, <1>4, <1>6, EmptyProperties DEF Queued, Linked, InHand, Locked, Pcs
<1>18. ListsHoldLive'
  BY <1>1, <1>6, <1>7, <1>17 DEF IInv, ListsHoldLive
<1>19. ReadyIsQueued'
  BY <1>1, <1>17 DEF IInv, ReadyIsQueued, ItemPoll
<1>20. NoLostWakeup'
  BY <1>1 DEF NoLostWakeup
<1> QED
  BY <1>9, <1>10, <1>11, <1>12, <1>13, <1>14, <1>15, <1>16, <1>18, <1>19, <1>20 DEF IInv

\* A step of a scan that takes the first item off the stolen list, if it takes any:
\* what it takes asks for nothing that is there, or is reported next.
LEMMA ScanKeeps ==
  ASSUME IInv, NEW t \in Threads, pc[t] \in {"scan", "read"},
         NEW l \in Scanning, Goto(t, l), NEW f,
         UNCHANGED << files, hooked, item, rdllist, ovflist, mtx, tasks, left, shots >>,
         txlist # << >>, f = Head(txlist),
         \/ l = "end" /\ UNCHANGED << txlist, fresh >>
         \/ /\ l # "end"
            /\ txlist' = Tail(txlist) /\ fresh' = fresh \ ({f} \X Bits)
            /\ ItemPoll(f) = {} <=> l # "report",
         arg' \in [Threads -> Frame],
         l = "report" => arg'[t].f = f /\ arg'[t].n < MaxEvents,
         ws' \subseteq Files, epws' \in BOOLEAN, epws => epws'
  PROVE  IInv'
<1>1. /\ mtx = t /\ \A u \in Threads : u # t => pc[u] \notin Locked
      /\ ovflist # Unactive /\ ovflist \in Seq(Files) /\ IsInjective(ovflist)
      /\ rdllist \in Seq(Files) /\ txlist \in Seq(Files)
      /\ IsInjective(txlist) /\ IsInjective(rdllist)
      /\ Range(txlist) \cap Range(rdllist) = {}
      /\ Range(txlist) \subseteq DOMAIN item /\ Range(rdllist) \subseteq DOMAIN item
      /\ Range(ovflist) \subseteq DOMAIN item
      /\ DOMAIN item \subseteq Files /\ hooked = DOMAIN item
      /\ item \in [DOMAIN item -> Armed]
  BY InScan DEF Scanning
<1>2. /\ UNCHANGED << ready, wakes, hooked, item, rdllist, ovflist, mtx, wq, asleep, left, shots >>
  BY DEF files, tasks
<1>3. /\ pc' \in [Threads -> Pcs] /\ pc'[t] = l
      /\ \A u \in Threads : u # t => pc'[u] = pc[u] /\ pc'[u] \notin Locked
      /\ mtx' \in Threads \cup {NoOne} /\ \A u \in Threads : pc'[u] \in Locked => mtx' = u
      /\ HolderIsBusy' /\ Waiters'
  <2>1. pc[t] \in Locked /\ l \in Pcs /\ l \in Locked /\ l # "wait"
    BY DEF Locked, Pcs, Scanning
  <2> QED BY <1>2, <2>1, SectionStep
<1>4. /\ f \in Range(txlist) /\ f \in DOMAIN item /\ f \notin Range(rdllist)
      /\ Tail(txlist) \in Seq(Files) /\ Range(txlist) = {f} \cup Range(Tail(txlist))
      /\ IsInjective(Tail(txlist)) /\ f \notin Range(Tail(txlist))
  BY <1>1, TailMembers
<1>5. /\ txlist' \in Seq(Files) /\ IsInjective(txlist') /\ fresh' \subseteq fresh
      /\ Range(txlist') = IF l = "end" THEN Range(txlist) ELSE Range(txlist) \ {f}
      /\ \A g \in Files : g # f => \A b : << g, b >> \in fresh' <=> << g, b >> \in fresh
  BY <1>1, <1>4
<1>6. IsInjective(txlist' \o rdllist)
  BY <1>1, <1>5, ConcatMembers
<1>7. TypeOK'
  BY <1>1, <1>2, <1>3, <1>5 DEF IInv, TypeOK
<1>8. ListsOfScan'
  BY <1>1, <1>2, <1>3 DEF ListsOfScan
<1>9. \A g : /\ Linked(g)' <=> Linked(g) /\ (g = f => l = "end")
             /\ Queued(g)' => Queued(g)
             /\ Queued(g) /\ g # f => Queued(g)'
             /\ l = "end" /\ Queued(g) => Queued(g)'
  BY <1>1, <1>2, <1>4, <1>5 DEF Queued, Linked
<1>10. InSection'
  <2> SUFFICES ASSUME NEW u \in Threads, pc'[u] \in {"poll", "link", "free", "report"}
               PROVE  /\ pc'[u] = "report" /\ arg'[u].f = f /\ f \in DOMAIN item
                      /\ ~Linked(f)' /\ arg'[u].n < MaxEvents /\ item[f].events # {}
    BY <1>2 DEF InSection, Linked
  <2>1. u = t /\ l = "report"
    BY <1>3 DEF Locked, Pcs, Scanning
  <2>2. item[f].events # {}
    BY <2>1 DEF ItemPoll
  <2> QED BY <1>3, <1>4, <1>9, <2>1, <2>2
<1>11. HookedUnlessFreed'
  BY <1>1, <1>2 DEF HookedUnlessFreed
<1>12. LookIsCovered'
  BY <1>3 DEF LookIsCovered, Locked, Pcs, Scanning
<1>13. ReportIsCovered'
  <2> SUFFICES ASSUME NEW u \in Threads, pc'[u] = "report",
                      NEW b \in ready'[arg'[u].f] \cap item'[arg'[u].f].events
               PROVE  << arg'[u].f, b >> \notin fresh'
    BY DEF ReportIsCovered, ItemPoll
  <2>1. u = t /\ l = "report"
    BY <1>3 DEF Locked, Pcs, Scanning
  <2>2. b \in Bits
    BY <1>1, <1>2, <1>4, <2>1 DEF Armed
  <2> QED BY <2>1, <2>2
<1>14. OneShotSpent' /\ OverflowHeld'
  BY <1>2 DEF IInv, OneShotSpent, OverflowHeld
<1>15. ListsHoldLive'
  BY <1>1, <1>2, <1>6, <1>9 DEF IInv, ListsHoldLive
<1>16. ReadyIsQueued'
  <2> SUFFICES ASSUME NEW g \in DOMAIN item, NEW b \in ItemPoll(g),
                      item[g].how = "edge" => << g, b >> \in fresh'
               PROVE  Queued(g)' \/ InHand(g)' \/ << g, b >> \in wakes
    BY <1>2 DEF ReadyIsQueued, ItemPoll
  <2>1. ~InHand(g)
    BY <1>1 DEF InHand, Locked, Pcs
  <2>2. CASE g = f /\ l # "end"
    <3>1. l = "report"
      BY <2>2
    <3> QED BY <1>3, <2>2, <3>1 DEF InHand
  <2>3. CASE ~(g = f /\ l # "end")
    BY <1>5, <1>9, <2>1, <2>3 DEF IInv, ReadyIsQueued
  <2> QED BY <2>2, <2>3
<1>17. NoLostWakeup'
  BY <1>3 DEF NoLostWakeup, Scanning
<1> QED
  BY <1>3, <1>7, <1>8, <1>10, <1>11, <1>12, <1>13, <1>14, <1>15, <1>16, <1>17 DEF IInv

LEMMA SendNextKeeps ==
  ASSUME IInv, NEW t \in Threads, SendNext(t)
  PROVE  IInv'
<1>0. PICK f : f = Head(txlist)
  OBVIOUS
<1>1. /\ pc[t] = "scan" /\ txlist # << >> /\ arg[t].n < MaxEvents
      /\ txlist' = Tail(txlist) /\ fresh' = fresh \ ({f} \X Bits)
      /\ epws' = (epws \/ f \in ws) /\ ws' = ws \ {f}
      /\ IF ItemPoll(f) = {} THEN UNCHANGED << pc, arg >>
         ELSE /\ arg' = [arg EXCEPT ![t].f = f, ![t].rev = ItemPoll(f)]
              /\ Goto(t, "report")
      /\ UNCHANGED << files, hooked, item, rdllist, ovflist, mtx, tasks, left, shots >>
  BY <1>0 DEF SendNext, KeptAwake
<1>2. /\ f \in Files /\ f \in DOMAIN item /\ item \in [DOMAIN item -> Armed]
      /\ arg \in [Threads -> Frame] /\ pc \in [Threads -> Pcs] /\ ws \subseteq Files
  <2>1. /\ txlist \in Seq(Files) /\ Range(txlist) \subseteq DOMAIN item
        /\ item \in [DOMAIN item -> Armed]
    BY <1>1, InScan DEF Scanning
  <2> QED BY <1>0, <1>1, <2>1, TailMembers DEF IInv, TypeOK
<1>3. CASE ItemPoll(f) = {}
  <2>1. Goto(t, "scan") /\ UNCHANGED arg
    BY <1>1, <1>2, <1>3 DEF Goto
  <2> QED
    BY <1>0, <1>1, <1>2, <1>3, <2>1, ScanKeeps DEF Scanning
<1>4. CASE ItemPoll(f) # {}
  <2>1. ItemPoll(f) \subseteq Bits
    BY <1>2 DEF ItemPoll, Armed
  <2>2. [arg[t] EXCEPT !.f = f, !.rev = ItemPoll(f)] \in Frame
    BY <1>2, <2>1 DEF Frame
  <2>3. arg' = [arg EXCEPT ![t] = [arg[t] EXCEPT !.f = f, !.rev = ItemPoll(f)]]
    BY <1>1, <1>2, <1>4
  <2>4. /\ arg' \in [Threads -> Frame] /\ arg'[t].f = f /\ arg'[t].n = arg[t].n
    BY <1>2, <2>2, <2>3 DEF Frame
  <2> QED
    BY <1>0, <1>1, <1>2, <1>4, <2>4, ScanKeeps DEF Scanning
<1> QED BY <1>3, <1>4

LEMMA ReadNextKeeps ==
  ASSUME IInv, NEW t \in Threads, ReadNext(t)
  PROVE  IInv'
<1>0. PICK f : f = Head(txlist)
  OBVIOUS
<1>1. /\ pc[t] = "read" /\ txlist # << >>
      /\ IF ItemPoll(f) # {} THEN Goto(t, "end") /\ UNCHANGED << txlist, ws, fresh >>
         ELSE /\ txlist' = Tail(txlist) /\ ws' = ws \ {f}
              /\ fresh' = fresh \ ({f} \X Bits)
              /\ UNCHANGED pc
      /\ UNCHANGED << files, hooked, item, rdllist, ovflist, mtx, tasks, arg, epws, left, shots >>
  BY <1>0 DEF ReadNext
<1>2. /\ arg \in [Threads -> Frame] /\ pc \in [Threads -> Pcs] /\ ws \subseteq Files
      /\ epws \in BOOLEAN
  BY DEF IInv, TypeOK
<1>3. CASE ItemPoll(f) # {}
  BY <1>0, <1>1, <1>2, <1>3, ScanKeeps DEF Scanning
<1>4. CASE ItemPoll(f) = {}
  <2>1. Goto(t, "read")
    BY <1>1, <1>2, <1>4 DEF Goto
  <2> QED
    BY <1>0, <1>1, <1>2, <1>4, <2>1, ScanKeeps DEF Scanning
<1> QED BY <1>3, <1>4

\* What is reported goes back to the ready list, is disarmed, or was looked at and
\* nothing came since.
LEMMA ReportKeeps ==
  ASSUME IInv, NEW t \in Threads, Report(t)
  PROVE  IInv'
<1>0. PICK f : f = arg[t].f
  OBVIOUS
<1>1. /\ pc[t] = "report" /\ Goto(t, "scan")
      /\ item' = [item EXCEPT ![f] = AfterReport(f)] /\ rdllist' = Requeued(f)
      /\ ws' = IF item[f].how = "level" THEN StayAwake(f) ELSE ws
      /\ shots' = [shots EXCEPT ![f] = IF @ = 2 THEN 2 ELSE @ + 1]
      /\ arg' = [arg EXCEPT ![t].f = NoOne, ![t].rev = {}, ![t].n = @ + 1]
      /\ UNCHANGED << ready, wakes, hooked, ovflist, txlist, mtx, wq, asleep, epws, left, fresh >>
  BY <1>0 DEF Report, files, tasks
<1>2. /\ mtx = t /\ \A u \in Threads : u # t => pc[u] \notin Locked
      /\ ovflist # Unactive /\ ovflist \in Seq(Files) /\ IsInjective(ovflist)
      /\ rdllist \in Seq(Files) /\ txlist \in Seq(Files)
      /\ IsInjective(txlist) /\ IsInjective(rdllist)
      /\ Range(txlist) \cap Range(rdllist) = {}
      /\ Range(txlist) \subseteq DOMAIN item /\ Range(rdllist) \subseteq DOMAIN item
      /\ Range(ovflist) \subseteq DOMAIN item
      /\ DOMAIN item \subseteq Files /\ hooked = DOMAIN item
      /\ item \in [DOMAIN item -> Armed]
  BY <1>1, InScan DEF Scanning
<1>3. /\ pc' \in [Threads -> Pcs] /\ pc'[t] = "scan"
      /\ \A u \in Threads : u # t => pc'[u] = pc[u] /\ pc'[u] \notin Locked
      /\ mtx' \in Threads \cup {NoOne} /\ \A u \in Threads : pc'[u] \in Locked => mtx' = u
      /\ HolderIsBusy' /\ Waiters'
  <2>1. pc[t] \in Locked /\ "scan" \in Pcs /\ "scan" \in Locked
    BY <1>1 DEF Locked, Pcs
  <2> QED BY <1>1, <2>1, SectionStep
<1>4. /\ f \in DOMAIN item /\ f \in Files /\ ~Linked(f)
      /\ arg[t].n < MaxEvents /\ item[f].events # {}
  BY <1>0, <1>1, <1>2 DEF IInv, InSection
<1>5. arg' \in [Threads -> Frame]
  <2>1. arg \in [Threads -> Frame]
    BY DEF IInv, TypeOK
  <2>2. [arg[t] EXCEPT !.f = NoOne, !.rev = {}, !.n = @ + 1] \in Frame
    <3>1. arg[t] \in Frame /\ arg[t].n + 1 \in 0 .. MaxEvents
      BY <1>4, <2>1, EpollAssumption DEF Frame
    <3> QED BY <3>1 DEF Frame
  <2>3. arg' = [arg EXCEPT ![t] = [arg[t] EXCEPT !.f = NoOne, !.rev = {}, !.n = @ + 1]]
    BY <1>1, <2>1
  <2> QED BY <2>1, <2>2, <2>3
<1>6. /\ AfterReport(f) \in Armed
      /\ AfterReport(f).how = item[f].how /\ AfterReport(f).wake = item[f].wake
      /\ AfterReport(f).events = IF item[f].how = "oneshot" THEN {} ELSE item[f].events
  BY <1>2, <1>4 DEF AfterReport, Armed
<1>7. /\ DOMAIN item' = DOMAIN item /\ item' \in [DOMAIN item -> Armed]
      /\ item'[f] = AfterReport(f) /\ \A g \in DOMAIN item : g # f => item'[g] = item[g]
  BY <1>1, <1>2, <1>4, <1>6
<1>8. /\ rdllist' \in Seq(Files) /\ IsInjective(txlist \o rdllist')
      /\ Range(rdllist') = IF item[f].how = "level" THEN Range(rdllist) \cup {f}
                                                    ELSE Range(rdllist)
  <2>1. CASE item[f].how = "level"
    <3>1. f \notin Range(rdllist) /\ f \notin Range(txlist)
      BY <1>4 DEF Linked
    <3>2. rdllist' = Append(rdllist, f)
      BY <1>1, <2>1 DEF Requeued
    <3>3. /\ rdllist' \in Seq(Files) /\ IsInjective(rdllist')
          /\ Range(rdllist') = Range(rdllist) \cup {f}
      BY <1>2, <1>4, <3>1, <3>2, AppendMembers
    <3>4. Range(txlist) \cap Range(rdllist') = {}
      BY <1>2, <3>1, <3>3
    <3> QED BY <1>2, <2>1, <3>3, <3>4, ConcatMembers
  <2>2. CASE item[f].how # "level"
    BY <1>1, <1>2, <2>2 DEF Requeued, IInv, ListsHoldLive
  <2> QED BY <2>1, <2>2
<1>9. TypeOK'
  <2>1. ws' \subseteq Files
    BY <1>1, <1>4 DEF IInv, TypeOK, StayAwake
  <2>2. shots' \in [Files -> 0 .. 2]
    <3>1. shots \in [Files -> 0 .. 2]
      BY DEF IInv, TypeOK
    <3> QED BY <1>1, <1>4, <3>1
  <2> QED
    BY <1>1, <1>2, <1>3, <1>5, <1>7, <1>8, <2>1, <2>2 DEF IInv, TypeOK
<1>10. ListsOfScan'
  BY <1>1, <1>2, <1>3 DEF ListsOfScan, Scanning
<1>11. InSection' /\ LookIsCovered' /\ ReportIsCovered'
  BY <1>3 DEF InSection, LookIsCovered, ReportIsCovered, Locked, Pcs
<1>12. HookedUnlessFreed'
  BY <1>1, <1>2, <1>7 DEF HookedUnlessFreed
<1>13. OneShotSpent'
  <2> SUFFICES ASSUME NEW g \in DOMAIN item, item'[g].how = "oneshot", shots'[g] # 0
               PROVE  shots'[g] = 1 /\ item'[g].events = {}
    BY <1>7 DEF OneShotSpent
  <2>1. shots \in [Files -> 0 .. 2] /\ g \in Files
    BY <1>2 DEF IInv, TypeOK
  <2>2. CASE g = f
    <3>1. item[f].how = "oneshot"
      BY <1>6, <1>7, <2>2
    <3>2. shots[f] = 0
      BY <1>4, <3>1 DEF IInv, OneShotSpent
    <3> QED BY <1>1, <1>4, <1>6, <1>7, <2>1, <2>2, <3>1, <3>2
  <2>3. CASE g # f
    <3>1. shots'[g] = shots[g] /\ item'[g] = item[g]
      BY <1>1, <1>4, <1>7, <2>1, <2>3
    <3> QED BY <3>1 DEF IInv, OneShotSpent
  <2> QED BY <2>2, <2>3
<1>14. OverflowHeld'
  <2>1. \A g \in DOMAIN item : item'[g].wake = item[g].wake
    BY <1>6, <1>7
  <2> QED BY <1>1, <1>2, <2>1 DEF IInv, OverflowHeld
<1>15. \A g : /\ Queued(g) => Queued(g)'
              /\ Queued(g)' <=> Queued(g) \/ (g = f /\ item[f].how = "level")
  BY <1>1, <1>2, <1>8 DEF Queued, Linked
<1>16. ListsHoldLive'
  <2>1. \A g \in Files : g \in hooked' \/ Queued(g)' => g \in DOMAIN item'
    BY <1>1, <1>4, <1>7, <1>15 DEF IInv, ListsHoldLive
  <2> QED BY <1>1, <1>2, <1>8, <2>1 DEF ListsHoldLive
<1>17. ReadyIsQueued'
  <2> SUFFICES ASSUME NEW g \in DOMAIN item, NEW b \in ready[g] \cap item'[g].events,
                      item'[g].how = "edge" => << g, b >> \in fresh
               PROVE  Queued(g)' \/ << g, b >> \in wakes
    BY <1>1, <1>7 DEF ReadyIsQueued, ItemPoll
  <2>1. CASE g # f
    <3>1. ~InHand(g)
      BY <1>0, <1>2, <2>1 DEF InHand, Locked, Pcs
    <3>2. item'[g] = item[g]
      BY <1>7, <2>1
    <3> QED BY <1>15, <3>1, <3>2 DEF IInv, ReadyIsQueued, ItemPoll
  <2>2. CASE g = f /\ item[f].how = "level"
    BY <1>15, <2>2
  <2>3. CASE g = f /\ item[f].how = "oneshot"
    BY <1>6, <1>7, <2>3
  <2>4. CASE g = f /\ item[f].how = "edge"
    BY <1>0, <1>1, <1>6, <1>7, <1>15, <2>4 DEF IInv, ReportIsCovered, ItemPoll
  <2>5. item[f].how \in {"level", "edge", "oneshot"}
    BY <1>2, <1>4 DEF Armed
  <2> QED BY <2>1, <2>2, <2>3, <2>4, <2>5
<1>18. NoLostWakeup'
  BY <1>3 DEF NoLostWakeup
<1> QED
  BY <1>3, <1>9, <1>10, <1>11, <1>12, <1>13, <1>14, <1>16, <1>17, <1>18 DEF IInv

\* The ready list after a scan: what was left, what was reported and came while the
\* scan ran.
LEMMA AfterScanMembers ==
  ASSUME IInv, NEW t \in Threads, pc[t] \in Scanning
  PROVE  /\ AfterScan \in Seq(Files) /\ IsInjective(AfterScan)
         /\ Range(AfterScan) = Range(txlist) \cup Range(rdllist) \cup Range(ovflist)
<1> DEFINE kept == Keep(ovflist, {f \in Files : Overflow(f)})
           front == txlist \o rdllist
<1>1. /\ ovflist \in Seq(Files) /\ IsInjective(ovflist)
      /\ rdllist \in Seq(Files) /\ txlist \in Seq(Files)
      /\ Range(ovflist) \subseteq Files
  BY InScan, RangeProperties
<1>2. /\ kept \in Seq(Files) /\ IsInjective(kept)
      /\ Range(kept) = Range(ovflist) \cap {f \in Files : Overflow(f)}
  BY <1>1, KeepProperties
<1>3. /\ front \in Seq(Files) /\ Range(front) = Range(txlist) \cup Range(rdllist)
      /\ IsInjective(front)
  BY <1>1, ConcatMembers DEF IInv, ListsHoldLive
<1>4. AfterScan = front \o kept
  BY DEF AfterScan
<1>5. \A f \in Files : Overflow(f) <=> f \in Range(ovflist) /\ f \notin Range(front)
  BY <1>3 DEF Overflow, Linked
<1> HIDE DEF kept, front
<1>6. Range(front) \cap Range(kept) = {}
  BY <1>2, <1>5
<1> QED BY <1>1, <1>2, <1>3, <1>4, <1>5, <1>6, ConcatMembers

LEMMA EndScanKeeps ==
  ASSUME IInv, NEW t \in Threads, EndScan(t)
  PROVE  IInv'
<1>1. /\ ScanDone(t) /\ mtx' = NoOne
      /\ rdllist' = AfterScan /\ txlist' = << >> /\ ovflist' = Unactive
      /\ ws' = ws \cup {f \in Files : Overflow(f) /\ item[f].wake} /\ epws' = FALSE
      /\ WakeAfterScan
      /\ Goto(t, IF ~arg[t].reads /\ arg[t].n = 0 /\ ~arg[t].timed THEN "fetch" ELSE "user")
      /\ arg' = [arg EXCEPT ![t] = Idle]
      /\ UNCHANGED << ready, wakes, hooked, item, wq, left, fresh, shots >>
  BY DEF EndScan, Unlocks, files, trace
<1>2. PICK l \in {"fetch", "user"} : Goto(t, l)
  BY <1>1
<1>3. pc[t] \in {"scan", "read", "end"}
  BY <1>1 DEF ScanDone
<1>4. /\ pc' \in [Threads -> Pcs] /\ pc'[t] = l
      /\ \A u \in Threads : u # t => pc'[u] = pc[u] /\ pc'[u] \notin Locked
      /\ mtx' \in Threads \cup {NoOne} /\ \A u \in Threads : pc'[u] \in Locked => mtx' = u
      /\ HolderIsBusy' /\ Waiters'
  <2>1. pc[t] \in Locked /\ l \in Pcs /\ l \notin Locked /\ l # "wait"
    BY <1>3 DEF Locked, Pcs
  <2> QED BY <1>1, <1>2, <2>1, SectionStep
<1>5. /\ \A u \in Threads : u # t => pc[u] \notin Locked
      /\ ovflist # Unactive /\ DOMAIN item \subseteq Files /\ hooked = DOMAIN item
      /\ Range(txlist) \cup Range(rdllist) \cup Range(ovflist) \subseteq DOMAIN item
  BY <1>3, InScan DEF Scanning
<1>6. /\ rdllist' \in Seq(Files) /\ IsInjective(rdllist') /\ txlist' \in Seq(Files)
      /\ Range(rdllist') = Range(txlist) \cup Range(rdllist) \cup Range(ovflist)
      /\ Range(txlist') = {} /\ IsInjective(txlist')
  BY <1>1, <1>3, AfterScanMembers, EmptyProperties DEF Scanning
<1>7. IsInjective(txlist' \o rdllist')
  BY <1>6, ConcatMembers
<1>8. arg' \in [Threads -> Frame]
  BY <1>1, IdleIsFrame, ArgMoves DEF IInv
<1>9. \A u \in Threads : pc'[u] \notin Locked
  BY <1>4 DEF Locked
<1>10. asleep' \subseteq asleep /\ NoLostWakeup'
  <2>1. CASE AfterScan = << >>
    BY <1>1, <2>1 DEF WakeAfterScan, NoLostWakeup
  <2>2. CASE AfterScan # << >>
    <3>1. WakeOne
      BY <1>1, <2>2 DEF WakeAfterScan
    <3>2. asleep' \subseteq asleep /\ (asleep # {} => \E u \in asleep : u \notin asleep')
      BY <3>1, WakeOneWakes
    <3>3. asleep \subseteq {u \in Threads : pc[u] = "wait"}
      BY DEF IInv, TypeOK, Waiters
    <3>4. asleep # {} => \E u \in Threads : pc'[u] = "wait" /\ u \notin asleep'
      BY <1>3, <1>4, <3>2, <3>3
    <3> QED BY <3>2, <3>4 DEF NoLostWakeup
  <2> QED BY <2>1, <2>2
<1>11. TypeOK'
  <2>1. ws' \subseteq Files /\ epws' \in BOOLEAN
    BY <1>1 DEF IInv, TypeOK
  <2> QED
    BY <1>1, <1>4, <1>6, <1>8, <1>10, <2>1 DEF IInv, TypeOK
<1>12. ListsOfScan'
  BY <1>1, <1>9 DEF ListsOfScan, Scanning, Locked, Pcs
<1>13. InSection' /\ LookIsCovered' /\ ReportIsCovered'
  BY <1>9 DEF InSection, LookIsCovered, ReportIsCovered, Locked, Pcs
<1>14. HookedUnlessFreed'
  BY <1>1, <1>5 DEF HookedUnlessFreed
<1>15. OneShotSpent' /\ OverflowHeld'
  BY <1>1 DEF IInv, OneShotSpent, OverflowHeld
<1>16. \A g : Queued(g)' <=> Queued(g)
  BY <1>1, <1>5, <1>6 DEF Queued, Linked
<1>17. ListsHoldLive'
  <2>1. \A g \in Files : g \in hooked' \/ Queued(g)' => g \in DOMAIN item'
    BY <1>1, <1>5, <1>16 DEF IInv, ListsHoldLive
  <2> QED BY <1>1, <1>7, <2>1 DEF ListsHoldLive
<1>18. ReadyIsQueued'
  <2>1. \A g : ~InHand(g)
    BY <1>3, <1>5 DEF InHand, Locked, Pcs
  <2> QED BY <1>1, <1>16, <2>1 DEF IInv, ReadyIsQueued, ItemPoll
<1> QED
  BY <1>4, <1>10, <1>11, <1>12, <1>13, <1>14, <1>15, <1>17, <1>18 DEF IInv

-----------------------------------------------------------------------------
(* The theorems about states.                                               *)

LEMMA InitIInv == Init => IInv
<1> SUFFICES ASSUME Init PROVE IInv
  OBVIOUS
<1>1. /\ pc = [t \in Threads |-> "user"] /\ arg = [t \in Threads |-> Idle]
      /\ hooked = {} /\ item = << >> /\ wakes = {} /\ fresh = {} /\ ws = {} /\ epws = FALSE
      /\ rdllist = << >> /\ txlist = << >> /\ ovflist = Unactive
      /\ mtx = NoOne /\ wq = << >> /\ asleep = {}
      /\ ready = [f \in Files |-> {}] /\ shots = [f \in Files |-> 0]
      /\ left = [arrivals |-> MaxArrivals, ctl |-> MaxCtl]
  BY DEF Init
<1>2. DOMAIN item = {} /\ << >> \in Seq(Files) /\ << >> \in Seq(Threads)
  BY <1>1
<1>3. TypeOK
  <2>1. left \in [arrivals : 0 .. MaxArrivals, ctl : 0 .. MaxCtl]
    BY <1>1, EpollAssumption
  <2>2. item \in [DOMAIN item -> Armed]
    BY <1>1, <1>2
  <2>3. pc \in [Threads -> Pcs] /\ \A t \in Threads : pc[t] \notin Locked
    BY <1>1 DEF Pcs, Locked
  <2>4. arg \in [Threads -> Frame]
    BY <1>1, IdleIsFrame
  <2>5. ready \in [Files -> SUBSET Bits] /\ shots \in [Files -> 0 .. 2]
    BY <1>1
  <2>6. /\ wakes \subseteq Files \X Bits /\ hooked \subseteq Files /\ DOMAIN item \subseteq Files
        /\ rdllist \in Seq(Files) /\ txlist \in Seq(Files) /\ ovflist = Unactive
        /\ mtx = NoOne /\ wq \in Seq(Threads) /\ asleep \subseteq Range(wq)
        /\ ws \subseteq Files /\ epws \in BOOLEAN /\ fresh \subseteq Files \X Bits
    BY <1>1, <1>2
  <2> QED BY <2>1, <2>2, <2>3, <2>4, <2>5, <2>6 DEF TypeOK
<1>4. HolderIsBusy
  BY <1>1, EpollAssumption DEF HolderIsBusy
<1>5. ListsOfScan /\ InSection /\ HookedUnlessFreed /\ LookIsCovered /\ ReportIsCovered
  BY <1>1, <1>2 DEF ListsOfScan, Scanning, InSection, HookedUnlessFreed, LookIsCovered,
                    ReportIsCovered
<1>6. Waiters
  BY <1>1, EmptyProperties DEF Waiters
<1>7. OneShotSpent /\ OverflowHeld /\ ReadyIsQueued /\ NoLostWakeup
  BY <1>1, <1>2 DEF OneShotSpent, OverflowHeld, ReadyIsQueued, NoLostWakeup
<1>8. ListsHoldLive
  <2>1. IsInjective(txlist \o rdllist)
    BY <1>1, <1>2, EmptyProperties, ConcatMembers
  <2>2. \A f : ~Queued(f)
    BY <1>1, EmptyProperties DEF Queued, Linked
  <2> QED BY <1>1, <2>1, <2>2 DEF ListsHoldLive
<1> QED BY <1>3, <1>4, <1>5, <1>6, <1>7, <1>8 DEF IInv

\* Nothing happens: the program may stop between two steps.
LEMMA StutterKeeps ==
  ASSUME IInv, UNCHANGED vars
  PROVE  IInv'
<1>1. /\ UNCHANGED << ready, wakes, hooked, item, rdllist, ovflist, txlist, mtx, wq, asleep >>
      /\ UNCHANGED << pc, arg, ws, epws, left, fresh, shots >>
  BY DEF vars, files, lists, tasks, power, trace
<1>2. TypeOK' /\ HolderIsBusy' /\ ListsOfScan' /\ Waiters'
  BY <1>1 DEF IInv, TypeOK, HolderIsBusy, ListsOfScan, Waiters
<1>3. InSection' /\ HookedUnlessFreed' /\ OneShotSpent' /\ OverflowHeld'
  BY <1>1 DEF IInv, InSection, HookedUnlessFreed, OneShotSpent, OverflowHeld, Linked
<1>4. LookIsCovered' /\ ReportIsCovered'
  BY <1>1 DEF IInv, LookIsCovered, ReportIsCovered, ItemPoll, Queued, Linked
<1>5. ListsHoldLive' /\ ReadyIsQueued' /\ NoLostWakeup'
  BY <1>1 DEF IInv, ListsHoldLive, ReadyIsQueued, NoLostWakeup, ItemPoll, Queued, Linked, InHand
<1> QED BY <1>2, <1>3, <1>4, <1>5 DEF IInv

LEMMA NextIInv == IInv /\ [Next]_vars => IInv'
<1> SUFFICES ASSUME IInv, [Next]_vars PROVE IInv'
  OBVIOUS
<1>1. ASSUME NEW f \in Files, NEW b \in Bits,
             Arrive(f, b) \/ Consume(f, b) \/ PollCallback(f, b)
      PROVE  IInv'
  BY <1>1, ArriveKeeps, ConsumeKeeps, PollCallbackKeeps
<1>2. ASSUME NEW t \in Threads, NEW f \in Files, NEW m \in Masks,
             CtlAdd(t, f, m) \/ CtlMod(t, f, m)
      PROVE  IInv'
  BY <1>2, CtlAddKeeps, CtlModKeeps
<1>3. ASSUME NEW t \in Threads, NEW f \in Files, CtlDel(t, f) \/ ReleaseFile(t, f)
      PROVE  IInv'
  BY <1>3, CtlDelKeeps, ReleaseFileKeeps
<1>4. ASSUME NEW t \in Threads,
             EpollWait(t) \/ PollEpoll(t) \/ Timeout(t) \/ Signal(t) \/ BeginScan(t)
      PROVE  IInv'
  BY <1>4, EpollWaitKeeps, PollEpollKeeps, TimeoutKeeps, SignalKeeps, BeginScanKeeps
<1>5. ASSUME NEW t \in Threads, Kernel(t)
      PROVE  IInv'
  BY <1>5, CtlPollKeeps, CtlLinkKeeps, FreeKeeps, FetchEventsKeeps, WokenKeeps,
     SendNextKeeps, ReportKeeps, ReadNextKeeps, EndScanKeeps DEF Kernel
<1>6. CASE UNCHANGED vars
  BY <1>6, StutterKeeps
<1> QED BY <1>1, <1>2, <1>3, <1>4, <1>5, <1>6 DEF Next

LEMMA IInvAlways == Spec => []IInv
BY InitIInv, NextIInv, PTL DEF Spec

\* The variables keep their types, and the critical sections of ep->mtx exclude each
\* other, in every reachable state.
THEOREM TypesHold == Spec => []TypeOK
<1>1. IInv => TypeOK
  BY DEF IInv
<1> QED BY <1>1, IInvAlways, PTL

\* No event falls between the hook, the look at the file, the stolen list, the overflow
\* list and the reports, whatever the threads do.
THEOREM ReadyStaysQueued == Spec => []ReadyIsQueued
<1>1. IInv => ReadyIsQueued
  BY DEF IInv
<1> QED BY <1>1, IInvAlways, PTL

\* Not everybody sleeps while there is something to take and nobody on the way to it.
THEOREM WakeupsReach == Spec => []NoLostWakeup
<1>1. IInv => NoLostWakeup
  BY DEF IInv
<1> QED BY <1>1, IInvAlways, PTL

\* A one-shot item is reported at most once while it is armed.
THEOREM OneShotIsOnce == Spec => []OneShotOnce
<1>1. IInv => OneShotOnce
  BY DEF IInv, TypeOK, OneShotSpent, OneShotOnce
<1> QED BY <1>1, IInvAlways, PTL

\* The lists hold live items, each once: no callback, scan or report meets a freed one.
THEOREM ListsAreLive == Spec => []ListsHoldLive
<1>1. IInv => ListsHoldLive
  BY DEF IInv
<1> QED BY <1>1, IInvAlways, PTL

-----------------------------------------------------------------------------
(* The theorem about steps: the wakeup sources.                             *)

\* What StaysHeld asks of one step.
HoldsOn == \A g \in Files : Held(g) /\ Awaited(g) /\ Awaited(g)' => Held(g)'

\* Most steps let go of nothing.
LEMMA NothingReleased ==
  ASSUME ws \subseteq ws', epws => epws', \A g \in Files : Linked(g)' => Linked(g)
  PROVE  HoldsOn
BY DEF HoldsOn, Held

\* Linking a file hands it from the wakeup source of the eventpoll to its own.
LEMMA LinkHolds ==
  ASSUME IInv, NEW f \in DOMAIN item, Link(f), UNCHANGED << item, txlist, epws >>
  PROVE  HoldsOn
<1> SUFFICES ASSUME NEW g \in Files, Held(g), Awaited(g) PROVE Held(g)'
  BY DEF HoldsOn
<1>1. Range(rdllist') \cup Range(txlist) = Range(rdllist) \cup Range(txlist) \cup {f}
  BY LinkLinks
<1>2. Linked(g)' <=> Linked(g) \/ g = f
  BY <1>1 DEF Linked
<1>3. ws \subseteq ws' /\ (g = f /\ ~Linked(f) => f \in ws')
  BY DEF Link, StayAwake, Awaited
<1> QED BY <1>2, <1>3 DEF Held

LEMMA PollCallbackHolds ==
  ASSUME IInv, NEW f \in Files, NEW b \in Bits, PollCallback(f, b)
  PROVE  HoldsOn
<1>1. UNCHANGED << hooked, item, txlist >> /\ hooked \subseteq DOMAIN item
  BY DEF PollCallback, IInv, TypeOK, ListsHoldLive
<1>2. CASE f \notin hooked \/ b \notin item[f].events
  BY <1>1, <1>2, NothingReleased DEF PollCallback, power, Linked
<1>3. CASE f \in hooked /\ b \in item[f].events /\ ovflist # Unactive
  <2>1. UNCHANGED << rdllist, ws >> /\ epws' = (epws \/ (item[f].wake /\ f \notin Range(ovflist)))
    BY <1>3 DEF PollCallback
  <2> QED BY <1>1, <2>1, NothingReleased DEF Linked
<1>4. CASE f \in hooked /\ b \in item[f].events /\ ovflist = Unactive
  <2>1. Link(f) /\ UNCHANGED epws /\ f \in DOMAIN item
    BY <1>1, <1>4 DEF PollCallback
  <2> QED BY <1>1, <2>1, LinkHolds
<1> QED BY <1>2, <1>3, <1>4

\* A source that ep_modify destroys is that of an item that no longer asks for one.
LEMMA CtlModHolds ==
  ASSUME IInv, NEW t \in Threads, NEW f \in Files, NEW m \in Masks, CtlMod(t, f, m)
  PROVE  HoldsOn
<1>1. /\ f \in DOMAIN item /\ item' = [item EXCEPT ![f] = m] /\ ws' = Sources(f, m)
      /\ UNCHANGED << rdllist, txlist, epws >>
  BY DEF CtlMod, Found, lists
<1>2. item'[f] = m
  BY <1>1 DEF IInv, TypeOK
<1> SUFFICES ASSUME NEW g \in Files, Held(g), Awaited(g)' PROVE Held(g)'
  BY DEF HoldsOn
<1>3. Linked(g)' <=> Linked(g)
  BY <1>1 DEF Linked
<1>4. g \in ws => g \in ws'
  BY <1>1, <1>2 DEF Sources, Awaited
<1> QED BY <1>1, <1>3, <1>4 DEF Held

LEMMA CtlLinkHolds ==
  ASSUME IInv, NEW t \in Threads, CtlLink(t)
  PROVE  HoldsOn
<1>0. PICK f : f = arg[t].f
  OBVIOUS
<1>1. /\ LinkIfReady(f, arg[t].rev) /\ UNCHANGED << item, txlist, epws >>
  BY <1>0 DEF CtlLink
<1>2. f \in DOMAIN item
  BY <1>0 DEF CtlLink, IInv, InSection, TypeOK, ListsHoldLive
<1>3. CASE arg[t].rev = {} \/ Linked(f)
  BY <1>1, <1>3, NothingReleased DEF LinkIfReady, Linked
<1>4. CASE ~(arg[t].rev = {} \/ Linked(f))
  BY <1>1, <1>2, <1>4, LinkHolds DEF LinkIfReady
<1> QED BY <1>3, <1>4

LEMMA FreeHolds ==
  ASSUME IInv, NEW t \in Threads, Free(t)
  PROVE  HoldsOn
<1>0. PICK f : f = arg[t].f
  OBVIOUS
<1>1. /\ rdllist' = Keep(rdllist, Files \ {f}) /\ ws' = ws \ {f}
      /\ item' = [g \in DOMAIN item \ {f} |-> item[g]]
      /\ UNCHANGED << txlist, epws >>
  BY <1>0 DEF Free, Unlinked
<1>2. Range(rdllist') \subseteq Range(rdllist)
  <2>1. rdllist \in Seq(Files)
    BY DEF IInv, TypeOK
  <2> QED BY <1>1, <2>1, KeepProperties
<1> SUFFICES ASSUME NEW g \in Files, Held(g), Awaited(g)' PROVE Held(g)'
  BY DEF HoldsOn
<1>3. g # f
  BY <1>1 DEF Awaited
<1>4. Linked(g)' => Linked(g)
  BY <1>1, <1>2 DEF Linked
<1> QED BY <1>1, <1>3, <1>4 DEF Held

LEMMA BeginScanHolds ==
  ASSUME NEW t \in Threads, BeginScan(t)
  PROVE  HoldsOn
<1>1. /\ txlist' = rdllist /\ rdllist' = << >> /\ UNCHANGED << ws, epws >>
  BY DEF BeginScan, power
<1>2. \A g \in Files : Linked(g)' => Linked(g)
  BY <1>1, EmptyProperties DEF Linked
<1> QED BY <1>1, <1>2, NothingReleased

\* ep_send_events_proc lets go of the source of an item after it has taken that of the
\* eventpoll, and the item is in no list then.
LEMMA SendNextHolds ==
  ASSUME IInv, NEW t \in Threads, SendNext(t)
  PROVE  HoldsOn
<1>0. PICK f : f = Head(txlist)
  OBVIOUS
<1>1. /\ pc[t] = "scan" /\ txlist # << >> /\ txlist' = Tail(txlist) /\ UNCHANGED rdllist
      /\ epws' = (epws \/ f \in ws) /\ ws' = ws \ {f}
  BY <1>0 DEF SendNext, KeptAwake
<1>2. /\ txlist \in Seq(Files) /\ IsInjective(txlist)
      /\ Range(txlist) \cap Range(rdllist) = {}
  BY <1>1, InScan DEF Scanning
<1>3. /\ Range(txlist) = {f} \cup Range(Tail(txlist)) /\ f \notin Range(Tail(txlist))
      /\ f \notin Range(rdllist)
  BY <1>0, <1>1, <1>2, TailMembers
<1>4. \A g : Linked(g)' <=> Linked(g) /\ g # f
  BY <1>1, <1>3 DEF Linked
<1> SUFFICES ASSUME NEW g \in Files, Held(g) PROVE Held(g)'
  BY DEF HoldsOn
<1> QED BY <1>1, <1>4 DEF Held

\* A level-triggered item takes its own source again before it is in the ready list.
LEMMA ReportHolds ==
  ASSUME IInv, NEW t \in Threads, Report(t)
  PROVE  HoldsOn
<1>0. PICK f : f = arg[t].f
  OBVIOUS
<1>1. /\ pc[t] = "report" /\ rdllist' = Requeued(f) /\ UNCHANGED << txlist, epws >>
      /\ ws' = IF item[f].how = "level" THEN StayAwake(f) ELSE ws
  BY <1>0 DEF Report
<1>2. f \in DOMAIN item /\ f \in Files /\ rdllist \in Seq(Files)
  BY <1>0, <1>1 DEF IInv, InSection, TypeOK
<1>3. CASE item[f].how = "level"
  <2>1. rdllist' = Append(rdllist, f) /\ ws' = StayAwake(f)
    BY <1>1, <1>3 DEF Requeued
  <2>2. Range(rdllist') = Range(rdllist) \cup {f}
    BY <1>2, <2>1, AppendMembers
  <2> SUFFICES ASSUME NEW g \in Files, Held(g), Awaited(g) PROVE Held(g)'
    BY DEF HoldsOn
  <2>3. Linked(g)' <=> Linked(g) \/ g = f
    BY <1>1, <2>2 DEF Linked
  <2>4. ws \subseteq ws' /\ (g = f => f \in ws')
    BY <2>1 DEF StayAwake, Awaited
  <2> QED BY <1>1, <2>3, <2>4 DEF Held
<1>4. CASE item[f].how # "level"
  BY <1>1, <1>4, NothingReleased DEF Requeued, Linked
<1> QED BY <1>3, <1>4

\* An item that a poll of the epoll file drops is in the overflow list, which the
\* eventpoll is kept awake for, or is not awaited.
LEMMA ReadNextHolds ==
  ASSUME IInv, NEW t \in Threads, ReadNext(t)
  PROVE  HoldsOn
<1>0. PICK f : f = Head(txlist)
  OBVIOUS
<1>1. /\ pc[t] = "read" /\ txlist # << >>
      /\ IF ItemPoll(f) # {} THEN Goto(t, "end") /\ UNCHANGED << txlist, ws, fresh >>
         ELSE txlist' = Tail(txlist) /\ ws' = ws \ {f} /\ UNCHANGED pc
      /\ UNCHANGED << item, rdllist, ovflist, arg, epws >>
  BY <1>0 DEF ReadNext
<1>2. CASE ItemPoll(f) # {}
  BY <1>1, <1>2, NothingReleased DEF Linked
<1>3. CASE ItemPoll(f) = {}
  <2>1. /\ \A u \in Threads : u # t => pc[u] \notin Locked
        /\ ovflist # Unactive /\ txlist \in Seq(Files) /\ IsInjective(txlist)
        /\ Range(txlist) \cap Range(rdllist) = {}
    BY <1>1, InScan DEF Scanning
  <2>2. /\ Range(txlist) = {f} \cup Range(Tail(txlist)) /\ f \notin Range(Tail(txlist))
        /\ f \notin Range(rdllist)
    BY <1>0, <1>1, <2>1, TailMembers
  <2>3. \A g : Linked(g)' <=> Linked(g) /\ g # f
    BY <1>1, <1>3, <2>2 DEF Linked
  <2>4. \A g : ~InHand(g)'
    <3>1. pc' = pc
      BY <1>1, <1>3
    <3> QED BY <1>1, <2>1, <3>1 DEF InHand, Locked, Pcs
  <2>5. epws' = epws /\ ws' = ws \ {f}
    BY <1>1, <1>3
  <2> SUFFICES ASSUME NEW g \in Files, Held(g), Awaited(g)' PROVE Held(g)'
    BY DEF HoldsOn
  <2>6. CASE g = f
    <3>1. f \in Range(ovflist) /\ item[f].wake
      BY <1>1, <2>3, <2>4, <2>6 DEF Awaited, Queued
    <3> QED BY <2>1, <2>3, <2>5, <2>6, <3>1 DEF IInv, OverflowHeld, Held
  <2>7. CASE g # f
    BY <2>3, <2>5, <2>7 DEF Held
  <2> QED BY <2>6, <2>7
<1> QED BY <1>2, <1>3

\* The source of the eventpoll is let go of when the overflow list has its own sources.
LEMMA EndScanHolds ==
  ASSUME IInv, NEW t \in Threads, EndScan(t)
  PROVE  HoldsOn
<1>1. /\ ScanDone(t) /\ ws' = ws \cup {f \in Files : Overflow(f) /\ item[f].wake}
  BY DEF EndScan
<1>2. pc[t] \in {"scan", "read", "end"} /\ \A u \in Threads : u # t => pc[u] \notin Locked
  BY <1>1, InScan DEF ScanDone, Scanning
<1> SUFFICES ASSUME NEW g \in Files, Held(g), Awaited(g) PROVE g \in ws'
  BY DEF HoldsOn, Held
<1>3. ~InHand(g)
  BY <1>2 DEF InHand, Locked, Pcs
<1>4. CASE g \in ws
  BY <1>1, <1>4
<1>5. CASE ~Linked(g)
  BY <1>1, <1>3, <1>5 DEF Awaited, Queued, Overflow
<1> QED BY <1>4, <1>5 DEF Held

LEMMA NextHolds == IInv /\ [Next]_vars => HoldsOn
<1> SUFFICES ASSUME IInv, [Next]_vars PROVE HoldsOn
  OBVIOUS
<1> USE DEF files, lists, power
<1>1. CASE UNCHANGED << rdllist, txlist, ws, epws >>
  BY <1>1, NothingReleased DEF Linked
<1>2. ASSUME NEW f \in Files, NEW b \in Bits,
             Arrive(f, b) \/ Consume(f, b) \/ PollCallback(f, b)
      PROVE  HoldsOn
  BY <1>1, <1>2, PollCallbackHolds DEF Arrive, Consume
<1>3. ASSUME NEW t \in Threads, NEW f \in Files, NEW m \in Masks,
             CtlAdd(t, f, m) \/ CtlMod(t, f, m)
      PROVE  HoldsOn
  BY <1>1, <1>3, CtlModHolds DEF CtlAdd
<1>4. ASSUME NEW t \in Threads, NEW f \in Files, CtlDel(t, f) \/ ReleaseFile(t, f)
      PROVE  HoldsOn
  BY <1>1, <1>4 DEF CtlDel, ReleaseFile
<1>5. ASSUME NEW t \in Threads,
             EpollWait(t) \/ PollEpoll(t) \/ Timeout(t) \/ Signal(t) \/ BeginScan(t)
      PROVE  HoldsOn
  BY <1>1, <1>5, BeginScanHolds DEF EpollWait, PollEpoll, Timeout, Signal
<1>6. ASSUME NEW t \in Threads, Kernel(t)
      PROVE  HoldsOn
  <2>1. CASE CtlPoll(t) \/ FetchEvents(t) \/ Woken(t)
    BY <1>1, <2>1 DEF CtlPoll, FetchEvents, Woken
  <2> QED
    BY <1>6, <2>1, CtlLinkHolds, FreeHolds, SendNextHolds, ReportHolds, ReadNextHolds,
       EndScanHolds DEF Kernel
<1>7. CASE UNCHANGED vars
  BY <1>1, <1>7 DEF vars
<1> QED BY <1>2, <1>3, <1>4, <1>5, <1>6, <1>7 DEF Next

\* The system is kept awake for an item, by its own wakeup source or by that of the
\* eventpoll, from the moment it is queued until it is taken from its list for good.
THEOREM StaysAwake == Spec => StaysHeld
<1>1. IInv /\ [Next]_vars
         => [\A f \in Files : Held(f) /\ Awaited(f) /\ Awaited(f)' => Held(f)']_vars
  BY NextHolds DEF HoldsOn
<1> QED BY <1>1, IInvAlways, PTL DEF Spec, StaysHeld
=============================================================================
