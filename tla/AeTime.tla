------------------------------- MODULE AeTime -------------------------------
(***************************************************************************)
(* The time events of the ae event loop (ae.c): a list that callbacks may  *)
(* change while processTimeEvents walks along it, and a clock that somebody *)
(* may set back.  aeDeleteTimeEvent only marks an event; the next walk     *)
(* takes it out.  Times are in ticks, and lastTime is in whole seconds.    *)
(***************************************************************************)
EXTENDS Integers, Sequences, SequencesExt, FiniteSets

CONSTANTS MaxEvents,    \* bound: time events ever created
          Delays,       \* what aeCreateTimeEvent is asked for and handlers return
          Clock,        \* bound: the times the clock shows
          Second        \* ticks of a second

\* The clock is past the first second of 1970.
TimeAssumption ==
    /\ MaxEvents \in Nat /\ Delays \subseteq Nat /\ Second \in Nat \ {0}
    /\ Clock \subseteq Nat /\ \A t \in Clock : t >= Second

VARIABLES
    list,      \* from timeEventHead on: the events by their number
    id,        \* event -> its id, or Deleted
    when,      \* event -> when_sec, when_ms
    nextId,    \* timeEventNextId
    lastTime,
    now,
    te,        \* where processTimeEvents is; None between two walks
    maxId,
    skewed,    \* history: this walk saw the clock go back
    met,       \* history: the events of the list when this walk began
    fired,     \* history: the events called in this walk
    finalized  \* history: event -> how often its finalizer ran

walk == << te, maxId, skewed, met, fired >>
vars == << list, id, when, nextId, lastTime, now, walk, finalized >>

Deleted == -1
None    == -1
Events  == 0 .. MaxEvents - 1

TypeOK ==
    /\ list \in Seq(Events) /\ id \in [Events -> Events \cup {Deleted}]
    /\ when \in [Events -> Nat] /\ nextId \in 0 .. MaxEvents
    /\ lastTime \in Nat /\ now \in Clock
    /\ te \in Events \cup {None} /\ maxId \in Events \cup {None} /\ skewed \in BOOLEAN
    /\ {met, fired} \subseteq SUBSET Events /\ finalized \in [Events -> Nat]

\* aeCreateEventLoop.
Init ==
    /\ list = << >> /\ id = [e \in Events |-> Deleted] /\ when = [e \in Events |-> 0]
    /\ nextId = 0 /\ now \in Clock /\ lastTime = now \div Second
    /\ te = None /\ maxId = None
    /\ skewed = FALSE /\ met = {} /\ fired = {}
    /\ finalized = [e \in Events |-> 0]

\* Time passes or the clock is set.
Tick ==
    /\ now' \in Clock
    /\ UNCHANGED << list, id, when, nextId, lastTime, walk, finalized >>

\* What callers do, outside a walk and in its callbacks: aeCreateTimeEvent puts the
\* event at the head, aeDeleteTimeEvent marks the first that has the id.
Create(c, d) ==
    IF nextId = MaxEvents THEN c
    ELSE [c EXCEPT !.list = << nextId >> \o @, !.id[nextId] = nextId,
                   !.when[nextId] = now + d, !.nextId = @ + 1]

\* Mutant: a deleted event leaves the list at once.
UnlinkNow(c, e) ==
    IF c.id[e] = e THEN [c EXCEPT !.id[e] = Deleted, !.list = RemoveFirst(@, e)] ELSE c

Delete(c, e) ==
    IF c.id[e] = e THEN [c EXCEPT !.id[e] = Deleted] ELSE c

Here == [list |-> list, id |-> id, when |-> when, nextId |-> nextId]
Does(c) ==
    {c} \cup {Create(c, d) : d \in Delays} \cup {Delete(c, e) : e \in Events}
Become(c) == /\ list' = c.list /\ id' = c.id /\ when' = c.when
             /\ nextId' = c.nextId

\* A file event handler, or the program before aeMain.
Call ==
    /\ te = None
    /\ \E c \in Does(Here) \ {Here} : Become(c)
    /\ UNCHANGED << lastTime, now, walk, finalized >>

-----------------------------------------------------------------------------
(* processTimeEvents.                                                      *)

Place(e) == CHOOSE j \in DOMAIN list : list[j] = e
After(e) == IF Place(e) = Len(list) THEN None ELSE list[Place(e) + 1]

\* Mutant: the seconds of the first event only.
FirstForced == [e \in Events |-> IF e = Head(list) THEN when[e] % Second ELSE when[e]]

\* The system clock was set back: every event fires as soon as possible.
Forced == [e \in Events |-> IF e \in ToSet(list) THEN when[e] % Second ELSE when[e]]

Begin ==
    /\ te = None /\ list # << >>
    /\ skewed' = (now \div Second < lastTime)
    /\ when' = IF skewed' THEN Forced ELSE when
    /\ lastTime' = now \div Second
    /\ te' = Head(list) /\ maxId' = nextId - 1
    /\ met' = ToSet(list) /\ fired' = {}
    /\ UNCHANGED << list, id, nextId, now, finalized >>

\* An event marked as deleted is unlinked, finalized and freed.
FreeDeleted ==
    /\ te # None /\ id[te] = Deleted
    /\ list' = RemoveAt(list, Place(te))
    /\ finalized' = [finalized EXCEPT ![te] = @ + 1]
    /\ te' = After(te)
    /\ UNCHANGED << id, when, nextId, lastTime, now, maxId, skewed, met, fired >>

Due(e) == id[e] <= maxId /\ now >= when[e]

Skip ==
    /\ te # None /\ id[te] # Deleted /\ ~Due(te)
    /\ te' = After(te)
    /\ UNCHANGED << list, id, when, nextId, lastTime, now, maxId, skewed, met, fired,
                    finalized >>

\* timeProc may create or delete any event, this one too; what it returns is the next
\* delay or AE_NOMORE, which marks the event whether it still is one or not.
Fire ==
    /\ te # None /\ id[te] # Deleted /\ Due(te)
    /\ \E c \in Does(Here) :
           \/ Become([c EXCEPT !.id[te] = Deleted])
           \/ \E d \in Delays : Become([c EXCEPT !.when[te] = now + d])
    /\ fired' = fired \cup {te}
    /\ te' = After(te)
    /\ UNCHANGED << lastTime, now, maxId, skewed, met, finalized >>

Next == Tick \/ Call \/ Begin \/ FreeDeleted \/ Skip \/ Fire

Spec == Init /\ [][Next]_vars

-----------------------------------------------------------------------------
(* How long aeProcessEvents lets aeApiPoll sleep.                          *)

\* aeSearchNearestTimer: the first of the earliest events, deleted ones too.
Nearest ==
    LET earliest == {i \in DOMAIN list : \A j \in DOMAIN list : when[list[i]] <= when[list[j]]}
    IN  IF earliest = {} THEN None
        ELSE list[CHOOSE i \in earliest : \A j \in earliest : i <= j]

\* The timeout: Forever without a time event.
Forever == -1
Sleep == IF Nearest = None THEN Forever
         ELSE IF when[Nearest] > now THEN when[Nearest] - now ELSE 0

-----------------------------------------------------------------------------
(* Properties.                                                             *)

\* The walk survives what its callbacks do: it stands on an event that is still in
\* the list, no event is in it twice, and an event leaves it only for its finalizer,
\* which runs once.
WalkIsSafe ==
    /\ te # None => te \in ToSet(list)
    /\ IsInjective(list)
    /\ \A e \in 0 .. nextId - 1 : finalized[e] = IF e \in ToSet(list) THEN 0 ELSE 1

\* After the clock was set back by a second or more no event waits for the old time:
\* the next walk calls every event it met, unless it was deleted before its turn.
SkewForcesAll ==
    te = None /\ skewed => met \subseteq fired \cup {e \in Events : id[e] = Deleted}

\* The loop does not sleep past an event, and sleeps for ever only when there is none:
\* one whose time has come, or was forced by the walk before, is not waited for.
WakesInTime ==
    te = None =>
        /\ Sleep = Forever => \A e \in Events : id[e] = Deleted
        /\ \A e \in Events : id[e] # Deleted => now + Sleep <= when[e] \/ Sleep = 0

\* All: time events are neither lost, nor called after they were freed, nor late.
TimeEventsSound == WalkIsSafe /\ SkewForcesAll /\ WakesInTime
=============================================================================
