------------------------------- MODULE Epoll -------------------------------
(***************************************************************************)
(* One eventpoll of fs/eventpoll.c: threads that wait on it and change it, *)
(* and files whose wait queues call back into it.                          *)
(*                                                                         *)
(* ep->mtx is the variable mtx. A section under the spinlock ep->lock is   *)
(* one step, and so is each turn of the loops that run with mtx alone: the *)
(* callback, which takes only the spinlock, may come between any two.      *)
(***************************************************************************)
EXTENDS Filter, SequencesExt, FiniteSets, Functions

CONSTANTS Threads, Files,
          Bits,         \* the poll events told apart
          Masks,        \* interests: the bits, how they trigger, EPOLLWAKEUP
          NoOne,        \* mtx when it is free
          MaxEvents,    \* the maxevents of epoll_wait
          MaxArrivals,  \* bound: how many events the files see
          MaxCtl        \* bound: how many changes are made to the interests

VARIABLES
    ready,      \* what the poll method of a file would answer
    wakes,      \* events whose wake_up has not called back yet
    hooked,     \* the files whose wait queue has an eppoll_entry
    item,       \* rbr: the registered files, their epitem's event.events
    rdllist,    \* the ready list
    ovflist,    \* the overflow list; Unactive outside ep_scan_ready_list
    txlist,     \* the stolen ready list of ep_scan_ready_list
    mtx,        \* the thread that holds ep->mtx
    wq,         \* threads in the wait queue of epoll_wait, the last one first
    asleep,     \* those of them whose task is not running
    pc, arg,    \* where a thread is in the kernel, and its local variables
    ws, epws,   \* active wakeup sources: of items, of the eventpoll
    left,       \* bounds: arrivals and changes still to come
    fresh,      \* history: events no scan has looked for since they came
    shots       \* history: reports of a file since it was armed, up to 2

files == << ready, wakes >>
lists == << rdllist, ovflist, txlist >>
tasks == << wq, asleep >>
power == << ws, epws >>
trace == << fresh, shots >>
vars  == << files, hooked, item, lists, mtx, tasks, pc, arg, power, left, trace >>

Unactive == << "EP_UNACTIVE_PTR" >>
Pcs      == {"user", "fetch", "wait", "lock", "scan", "report", "read", "end",
             "poll", "link", "free"}
Locked   == Pcs \ {"user", "fetch", "wait", "lock"}
Armed    == [events : SUBSET Bits, how : {"level", "edge", "oneshot"}, wake : BOOLEAN]
Frame    == [f : Files \cup {NoOne}, rev : SUBSET Bits, n : 0 .. MaxEvents,
             timed : BOOLEAN, signal : BOOLEAN, reads : BOOLEAN]
Idle     == [f |-> NoOne, rev |-> {}, n |-> 0, timed |-> FALSE, signal |-> FALSE,
             reads |-> FALSE]

\* maxevents is positive (the first check of epoll_wait); EP_UNACTIVE_PTR is no epitem.
ASSUME EpollAssumption ==
    /\ Masks \subseteq Armed
    /\ MaxEvents \in Nat \ {0} /\ MaxArrivals \in Nat /\ MaxCtl \in Nat
    /\ NoOne \notin Threads \cup Files
    /\ "EP_UNACTIVE_PTR" \notin Files

TypeOK ==
    /\ ready \in [Files -> SUBSET Bits] /\ wakes \subseteq Files \X Bits
    /\ hooked \subseteq Files
    /\ DOMAIN item \subseteq Files /\ item \in [DOMAIN item -> Armed]
    /\ rdllist \in Seq(Files) /\ txlist \in Seq(Files)
    /\ ovflist = Unactive \/ ovflist \in Seq(Files)
    /\ mtx \in Threads \cup {NoOne}
    /\ \A t \in Threads : pc[t] \in Locked => mtx = t
    /\ wq \in Seq(Threads) /\ asleep \subseteq Range(wq)
    /\ pc \in [Threads -> Pcs]
    /\ arg \in [Threads -> Frame]
    /\ ws \subseteq Files /\ epws \in BOOLEAN
    /\ left \in [arrivals : 0 .. MaxArrivals, ctl : 0 .. MaxCtl]
    /\ fresh \subseteq Files \X Bits /\ shots \in [Files -> 0 .. 2]

\* ep_alloc.
Init ==
    /\ ready = [f \in Files |-> {}] /\ wakes = {}
    /\ hooked = {} /\ item = << >>
    /\ rdllist = << >> /\ txlist = << >> /\ ovflist = Unactive
    /\ mtx = NoOne /\ wq = << >> /\ asleep = {}
    /\ pc = [t \in Threads |-> "user"] /\ arg = [t \in Threads |-> Idle]
    /\ ws = {} /\ epws = FALSE
    /\ left = [arrivals |-> MaxArrivals, ctl |-> MaxCtl]
    /\ fresh = {} /\ shots = [f \in Files |-> 0]

-----------------------------------------------------------------------------

\* ep_events_available, ep_is_linked, ep_item_poll.
Available   == rdllist # << >> \/ ovflist # Unactive
Linked(f)   == f \in Range(rdllist) \cup Range(txlist)
ItemPoll(f) == ready[f] \cap item[f].events

Goto(t, l) == pc' = [pc EXCEPT ![t] = l]

\* wake_up_locked(&ep->wq): the first waiter that sleeps.
WakeOne ==
    LET sleepers == Keep(wq, asleep)
    IN  asleep' = IF sleepers = << >> THEN asleep ELSE asleep \ {Head(sleepers)}

\* ep_pm_stay_awake: the wakeup source of f, if it has one, is active.
StayAwake(f) == IF item[f].wake THEN ws \cup {f} ELSE ws

\* A file that is not in the ready list goes to its tail.
Link(f) ==
    /\ rdllist' = IF Linked(f) THEN rdllist ELSE Append(rdllist, f)
    /\ ws' = IF Linked(f) THEN ws ELSE StayAwake(f)

-----------------------------------------------------------------------------
(* The files.                                                               *)

\* Something arrives at f, and its driver is about to wake the wait queue.
Arrive(f, b) ==
    /\ left.arrivals > 0
    /\ left' = [left EXCEPT !.arrivals = @ - 1]
    /\ ready' = [ready EXCEPT ![f] = @ \cup {b}]
    /\ wakes' = wakes \cup {<< f, b >>}
    /\ fresh' = fresh \cup {<< f, b >>}
    /\ UNCHANGED << hooked, item, lists, mtx, tasks, pc, arg, power, shots >>

\* It is read, or written full.
Consume(f, b) ==
    /\ b \in ready[f]
    /\ ready' = [ready EXCEPT ![f] = @ \ {b}]
    /\ UNCHANGED << wakes, hooked, item, lists, mtx, tasks, pc, arg, power, left, trace >>

\* The overflow list after a callback for f.
Overflowed(f) == IF f \in Range(ovflist) THEN ovflist ELSE << f >> \o ovflist

\* wake_up on the wait queue of f: ep_poll_callback, if an item is hooked there
\* and asks for the event.
PollCallback(f, b) ==
    /\ << f, b >> \in wakes
    /\ wakes' = wakes \ {<< f, b >>}
    /\ IF f \notin hooked \/ b \notin item[f].events
       THEN UNCHANGED << rdllist, ovflist, power, asleep >>
       ELSE IF ovflist # Unactive
       THEN /\ ovflist' = Overflowed(f)
            /\ epws' = (epws \/ (item[f].wake /\ f \notin Range(ovflist)))
            /\ UNCHANGED << rdllist, ws, asleep >>
       ELSE Link(f) /\ WakeOne /\ UNCHANGED << ovflist, epws >>
    /\ UNCHANGED << ready, hooked, item, txlist, mtx, wq, pc, arg, left, trace >>

-----------------------------------------------------------------------------
(* epoll_ctl.                                                               *)

\* Mutant: a critical section that does not wait for its turn.
LocksAnyway(t) == mtx' = t

Locks(t)   == mtx = NoOne /\ mtx' = t
Unlocks(t) == mtx = t /\ mtx' = NoOne

\* A change of the interest in f by thread t, which has got ep->mtx.
Changes(t, f) ==
    /\ pc[t] = "user" /\ Locks(t)
    /\ left.ctl > 0 /\ left' = [left EXCEPT !.ctl = @ - 1]
    /\ arg' = [arg EXCEPT ![t].f = f]
    /\ shots' = [shots EXCEPT ![f] = 0]
    /\ fresh' = fresh \cup ({f} \X Bits)

\* ep_find; ep_rbtree_insert; ep_ptable_queue_proc; ep_unregister_pollwait.
Found(f)       == f \in DOMAIN item
Inserted(f, m) == [g \in DOMAIN item \cup {f} |-> IF g = f THEN m ELSE item[g]]
Hooked(f)      == hooked \cup {f}
Unhooked(f)    == hooked \ {f}

\* ep_create_wakeup_source, ep_destroy_wakeup_source: what is left of the active
\* ones when f gets the mask m.
Sources(f, m) == IF m.wake THEN ws ELSE ws \ {f}

\* ep_insert: the hook first, then the look at the file.
CtlAdd(t, f, m) ==
    /\ ~Found(f)
    /\ Changes(t, f)
    /\ item' = Inserted(f, m)
    /\ hooked' = Hooked(f)
    /\ Goto(t, "poll")
    /\ UNCHANGED << files, lists, tasks, power >>

\* ep_modify: the new mask first, then the look at the file.
CtlMod(t, f, m) ==
    /\ Found(f)
    /\ Changes(t, f)
    /\ item' = [item EXCEPT ![f] = m]
    /\ ws' = Sources(f, m)
    /\ Goto(t, "poll")
    /\ UNCHANGED << files, hooked, lists, tasks, epws >>

CtlPoll(t) ==
    /\ pc[t] = "poll"
    /\ arg' = [arg EXCEPT ![t].rev = ItemPoll(arg[t].f)]
    /\ Goto(t, "link")
    /\ UNCHANGED << files, hooked, item, lists, mtx, tasks, power, left, trace >>

\* The ready list after the look at f showed rev.
LinkIfReady(f, rev) ==
    IF rev = {} \/ Linked(f) THEN UNCHANGED << rdllist, ws, asleep >>
    ELSE Link(f) /\ WakeOne

\* The end of ep_insert and ep_modify, under ep->lock.
CtlLink(t) ==
    /\ pc[t] = "link"
    /\ LinkIfReady(arg[t].f, arg[t].rev)
    /\ Unlocks(t)
    /\ arg' = [arg EXCEPT ![t] = Idle]
    /\ Goto(t, "user")
    /\ UNCHANGED << files, hooked, item, ovflist, txlist, wq, epws, left, trace >>

\* ep_remove: no callback can come once the hook is gone.
CtlDel(t, f) ==
    /\ Found(f)
    /\ Changes(t, f)
    /\ hooked' = Unhooked(f)
    /\ Goto(t, "free")
    /\ UNCHANGED << files, item, lists, tasks, power >>

\* eventpoll_release_file does the same when f is closed; nobody uses f then.
ReleaseFile(t, f) ==
    /\ Found(f)
    /\ Changes(t, f)
    /\ hooked' = Unhooked(f)
    /\ ready' = [ready EXCEPT ![f] = {}] /\ wakes' = {w \in wakes : w[1] # f}
    /\ Goto(t, "free")
    /\ UNCHANGED << item, lists, tasks, power >>

\* Mutant: the item is freed and stays in the list.
StillLinked(f) == rdllist

\* The ready list without a removed file.
Unlinked(f) == Keep(rdllist, Files \ {f})

Free(t) ==
    LET f == arg[t].f
    IN  /\ pc[t] = "free"
        /\ rdllist' = Unlinked(f)
        /\ item' = [g \in DOMAIN item \ {f} |-> item[g]]
        /\ ws' = ws \ {f}
        /\ Unlocks(t)
        /\ arg' = [arg EXCEPT ![t] = Idle]
        /\ Goto(t, "user")
        /\ UNCHANGED << files, hooked, ovflist, txlist, tasks, epws, left, trace >>

-----------------------------------------------------------------------------
(* epoll_wait: ep_poll.                                                     *)

\* With timeout 0 there is nothing to wait for.
EpollWait(t) ==
    /\ pc[t] = "user"
    /\ \/ Goto(t, "fetch") /\ UNCHANGED arg
       \/ /\ Available
          /\ arg' = [arg EXCEPT ![t].timed = TRUE]
          /\ Goto(t, "lock")
    /\ UNCHANGED << files, hooked, item, lists, mtx, tasks, power, left, trace >>

\* fetch_events: nothing there, so the task joins the queue and sleeps.
FetchEvents(t) ==
    /\ pc[t] = "fetch"
    /\ IF Available THEN Goto(t, "lock") /\ UNCHANGED tasks
       ELSE /\ wq' = << t >> \o wq
            /\ asleep' = asleep \cup {t}
            /\ Goto(t, "wait")
    /\ UNCHANGED << files, hooked, item, lists, mtx, arg, power, left, trace >>

\* The timer fires, or a signal comes, whether the task still sleeps or not.
Timeout(t) ==
    /\ pc[t] = "wait" /\ ~arg[t].timed
    /\ arg' = [arg EXCEPT ![t].timed = TRUE]
    /\ asleep' = asleep \ {t}
    /\ UNCHANGED << files, hooked, item, lists, mtx, wq, pc, power, left, trace >>

Signal(t) ==
    /\ pc[t] = "wait" /\ ~arg[t].signal
    /\ arg' = [arg EXCEPT ![t].signal = TRUE]
    /\ asleep' = asleep \ {t}
    /\ UNCHANGED << files, hooked, item, lists, mtx, wq, pc, power, left, trace >>

\* What a task that runs again makes of it: the events count first.
Woken(t) ==
    /\ pc[t] = "wait" /\ t \notin asleep
    /\ IF Available \/ arg[t].timed \/ arg[t].signal
       THEN /\ wq' = Keep(wq, Threads \ {t})
            /\ Goto(t, IF Available THEN "lock" ELSE "user")
            /\ arg' = [arg EXCEPT ![t] = IF Available THEN [@ EXCEPT !.signal = FALSE]
                                                      ELSE Idle]
            /\ UNCHANGED asleep
       ELSE asleep' = asleep \cup {t} /\ UNCHANGED << wq, pc, arg >>
    /\ UNCHANGED << files, hooked, item, lists, mtx, power, left, trace >>

-----------------------------------------------------------------------------
(* ep_scan_ready_list, for ep_send_events and for a poll of the epoll file.  *)

\* ep_eventpoll_poll, by whoever polls the epoll file.
PollEpoll(t) ==
    /\ pc[t] = "user"
    /\ arg' = [arg EXCEPT ![t].reads = TRUE]
    /\ Goto(t, "lock")
    /\ UNCHANGED << files, hooked, item, lists, mtx, tasks, power, left, trace >>

\* The ready list is stolen, and callbacks go to the overflow list.
BeginScan(t) ==
    /\ pc[t] = "lock"
    /\ Locks(t)
    /\ txlist' = rdllist /\ rdllist' = << >>
    /\ ovflist' = << >>
    /\ Goto(t, IF arg[t].reads THEN "read" ELSE "scan")
    /\ UNCHANGED << files, hooked, item, tasks, arg, power, left, trace >>

\* Mutant: the item is relaxed before the eventpoll is kept awake.
RelaxedFirst(f) == epws

\* Whether the eventpoll is kept awake once f is taken out of the list.
KeptAwake(f) == epws \/ f \in ws

\* ep_send_events_proc: the first item leaves the list and its file is polled.
SendNext(t) ==
    LET f == Head(txlist)
    IN  /\ pc[t] = "scan" /\ txlist # << >> /\ arg[t].n < MaxEvents
        /\ txlist' = Tail(txlist)
        /\ epws' = KeptAwake(f) /\ ws' = ws \ {f}
        /\ IF ItemPoll(f) = {} THEN UNCHANGED << pc, arg >>
           ELSE /\ arg' = [arg EXCEPT ![t].f = f, ![t].rev = ItemPoll(f)]
                /\ Goto(t, "report")
        /\ fresh' = fresh \ ({f} \X Bits)
        /\ UNCHANGED << files, hooked, item, rdllist, ovflist, mtx, tasks, left, shots >>

\* Mutant: EPOLLONESHOT does not disarm.
StillArmed(f) == item[f]

\* The interest in a file after it was reported, and the ready list.
AfterReport(f) == [item[f] EXCEPT !.events = IF item[f].how = "oneshot" THEN {} ELSE @]
Requeued(f)    == IF item[f].how = "level" THEN Append(rdllist, f) ELSE rdllist

Report(t) ==
    LET f == arg[t].f
    IN  /\ pc[t] = "report"
        /\ item' = [item EXCEPT ![f] = AfterReport(f)]
        /\ rdllist' = Requeued(f)
        /\ ws' = IF item[f].how = "level" THEN StayAwake(f) ELSE ws
        /\ shots' = [shots EXCEPT ![f] = IF @ = 2 THEN 2 ELSE @ + 1]
        /\ arg' = [arg EXCEPT ![t].f = NoOne, ![t].rev = {}, ![t].n = @ + 1]
        /\ Goto(t, "scan")
        /\ UNCHANGED << files, hooked, ovflist, txlist, mtx, tasks, epws, left, fresh >>

\* ep_read_events_proc: an item that is not ready is dropped, the first that is
\* ends the scan and stays.
ReadNext(t) ==
    LET f == Head(txlist)
    IN  /\ pc[t] = "read" /\ txlist # << >>
        /\ IF ItemPoll(f) # {} THEN Goto(t, "end") /\ UNCHANGED << txlist, ws, fresh >>
           ELSE /\ txlist' = Tail(txlist) /\ ws' = ws \ {f}
                /\ fresh' = fresh \ ({f} \X Bits)
                /\ UNCHANGED pc
        /\ UNCHANGED << files, hooked, item, rdllist, ovflist, mtx, tasks, arg, epws, left, shots >>

\* Mutants: the overflow list is forgotten; what is left goes to the back; the
\* waiters are not woken when the scan leaves something behind.
Forgotten(f)     == FALSE
LeftoversBehind  == rdllist \o txlist \o Keep(ovflist, {f \in Files : ~Linked(f)})
WakeNobody       == UNCHANGED asleep

\* The overflow list goes behind what was reported, what is left in front of it.
Overflow(f)   == f \in Range(ovflist) /\ ~Linked(f)
AfterScan     == txlist \o rdllist \o Keep(ovflist, {f \in Files : Overflow(f)})
WakeAfterScan == IF AfterScan = << >> THEN UNCHANGED asleep ELSE WakeOne

ScanDone(t) ==
    \/ pc[t] = "end"
    \/ pc[t] = "read" /\ txlist = << >>
    \/ pc[t] = "scan" /\ (txlist = << >> \/ arg[t].n = MaxEvents)

\* ep_poll tries again if it has nothing to return and time left.
EndScan(t) ==
    /\ ScanDone(t)
    /\ rdllist' = AfterScan /\ txlist' = << >> /\ ovflist' = Unactive
    /\ ws' = ws \cup {f \in Files : Overflow(f) /\ item[f].wake}
    /\ epws' = FALSE
    /\ WakeAfterScan
    /\ Unlocks(t)
    /\ Goto(t, IF ~arg[t].reads /\ arg[t].n = 0 /\ ~arg[t].timed THEN "fetch" ELSE "user")
    /\ arg' = [arg EXCEPT ![t] = Idle]
    /\ UNCHANGED << files, hooked, item, wq, left, trace >>

-----------------------------------------------------------------------------

Kernel(t) ==
    \/ CtlPoll(t) \/ CtlLink(t) \/ Free(t)
    \/ FetchEvents(t) \/ Woken(t)
    \/ SendNext(t) \/ Report(t) \/ ReadNext(t) \/ EndScan(t)

Next ==
    \/ \E f \in Files, b \in Bits : Arrive(f, b) \/ Consume(f, b) \/ PollCallback(f, b)
    \/ \E t \in Threads :
        \/ \E f \in Files, m \in Masks : CtlAdd(t, f, m) \/ CtlMod(t, f, m)
        \/ \E f \in Files : CtlDel(t, f) \/ ReleaseFile(t, f)
        \/ EpollWait(t) \/ PollEpoll(t) \/ Timeout(t) \/ Signal(t)
        \/ BeginScan(t) \/ Kernel(t)

\* A task that can run in the kernel does; a wake_up that is due is made; the
\* waiters of a mutex get it in turn.
Fairness ==
    /\ \A t \in Threads : WF_vars(Kernel(t)) /\ SF_vars(BeginScan(t))
    /\ \A f \in Files, b \in Bits : WF_vars(PollCallback(f, b))

Spec == Init /\ [][Next]_vars /\ Fairness

-----------------------------------------------------------------------------
(* Properties.                                                              *)

Queued(f)  == Linked(f) \/ (ovflist # Unactive /\ f \in Range(ovflist))
InHand(f)  == \E t \in Threads : pc[t] \in {"report", "poll", "link", "free"} /\ arg[t].f = f

\* A file that has what its item asks for is in one of the lists, or about to be:
\* between the hook, the look at the file, the stolen list, the overflow list and
\* the reports no event falls through. An edge-triggered file may have been
\* looked at since anything arrived.
ReadyIsQueued ==
    \A f \in DOMAIN item : \A b \in ItemPoll(f) :
        (item[f].how = "edge" => << f, b >> \in fresh)
            => Queued(f) \/ InHand(f) \/ << f, b >> \in wakes

\* When the ready list is not empty, not everybody sleeps who could take from it
\* while nobody else is on the way: ep_poll_callback, ep_insert, ep_modify and the
\* end of a scan each wake one, and a wake-up that meets a timeout or a signal is
\* not lost.
NoLostWakeup ==
    rdllist # << >> /\ asleep # {}
        => \E t \in Threads : pc[t] \in {"lock", "scan", "report", "read", "end"}
                              \/ (pc[t] = "wait" /\ t \notin asleep)

\* A one-shot file is reported once for every time it is armed.
OneShotOnce == \A f \in DOMAIN item : item[f].how = "oneshot" => shots[f] < 2

\* The lists hold no item that was freed, and none twice; no callback can reach
\* one.
ListsHoldLive ==
    /\ IsInjective(txlist \o rdllist)
    /\ ovflist # Unactive => IsInjective(ovflist)
    /\ \A f \in Files : f \in hooked \/ Queued(f) => f \in DOMAIN item

\* An item that keeps the system awake while it is queued does so until it is
\* taken from its list for good: with its own wakeup source, or with that of the
\* eventpoll while the scan holds it or the overflow list does.
Held(f)    == f \in ws \/ (epws /\ ~Linked(f))
Awaited(f) == f \in DOMAIN item /\ item[f].wake /\ (Queued(f) \/ InHand(f))

StaysHeld ==
    [][\A f \in Files : Held(f) /\ Awaited(f) /\ Awaited(f)' => Held(f)']_vars

\* What the comment at line 1524 takes for granted: the wakeup source of an item
\* is active as long as the item is in the ready list.
WakeupInSync == mtx = NoOne => \A f \in Range(rdllist) : item[f].wake => f \in ws

\* A level-triggered file that stays ready is reported again and again to threads
\* that keep asking, however many others are ready too: what was reported goes
\* behind what was not.
LevelReady(f) == f \in DOMAIN item /\ item[f].how = "level" /\ ItemPoll(f) # {}

TakeTurns ==
    \A f \in Files :
        <>[]LevelReady(f) /\ []<>(\E t \in Threads : pc[t] = "fetch")
            => []<>(\E t \in Threads : pc[t] = "report" /\ arg[t].f = f)
=============================================================================
