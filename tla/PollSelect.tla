----------------------------- MODULE PollSelect -----------------------------
(***************************************************************************)
(* fs/select.c: a task in select(2) or poll(2), files whose wait queues    *)
(* call back into it, timeouts and signals. Busy polling, which is off     *)
(* unless a sysctl turns it on, and closed descriptors are left out.       *)
(***************************************************************************)
EXTENDS Naturals, Sequences, SequencesExt, FiniteSets, Functions

CONSTANTS Files,        \* in the order of their descriptors
          Calls,        \* what may be called, and with which interests
          MaxArrivals   \* bound: how many events the files see

VARIABLES
    status,     \* what the poll method of a file would answer
    due,        \* events whose wake_up has not called back yet
    entries,    \* the poll_table_entry of a file in its wait queue: its key
    triggered,  \* pwq->triggered
    task,       \* "runs", or "sleepy": TASK_INTERRUPTIBLE
    at,         \* where the task is
    call,       \* the system call it makes, its timeout and what it has found
    todo,       \* the files this loop still has to ask
    came        \* bound

outside == << status, due, came >>
pollvars == << outside, entries, triggered, task, at, call, todo >>

Kinds   == {"in", "out", "ex"}

WaitAssumption ==
    /\ Files \in Seq(Range(Files)) /\ MaxArrivals \in Nat
    /\ Calls \subseteq [fn : {"select", "poll"}, want : [Range(Files) -> SUBSET Kinds]]

NoCall  == [fn |-> "none", want |-> [f \in Range(Files) |-> {}], hooks |-> FALSE,
            timed |-> FALSE, signal |-> FALSE, error |-> FALSE, found |-> {}]

TypeOK ==
    /\ status \in [Range(Files) -> SUBSET Kinds] /\ due \subseteq Range(Files) \X Kinds
    /\ entries \in [Range(Files) -> SUBSET Kinds] /\ triggered \in BOOLEAN
    /\ task \in {"runs", "sleepy"}
    /\ at \in {"user", "ask", "look", "schedule", "asleep", "awake"}
    /\ task = "sleepy" => at \in {"schedule", "asleep"}
    /\ todo \in Seq(Range(Files))
    /\ call \in [fn : {"none", "select", "poll"}, want : [Range(Files) -> SUBSET Kinds],
                 hooks : BOOLEAN, timed : BOOLEAN, signal : BOOLEAN, error : BOOLEAN,
                 found : SUBSET (Range(Files) \X Kinds)]

Init ==
    /\ status = [f \in Range(Files) |-> {}] /\ due = {}
    /\ entries = [f \in Range(Files) |-> {}] /\ triggered = FALSE
    /\ task = "runs" /\ at = "user" /\ call = NoCall /\ todo = << >> /\ came = 0

-----------------------------------------------------------------------------
(* The files.                                                               *)

Arrive(f, b) ==
    /\ came < MaxArrivals /\ came' = came + 1
    /\ status' = [status EXCEPT ![f] = @ \cup {b}]
    /\ due' = due \cup {<< f, b >>}
    /\ UNCHANGED << entries, triggered, task, at, call, todo >>

Consume(f, b) ==
    /\ b \in status[f]
    /\ status' = [status EXCEPT ![f] = @ \ {b}]
    /\ UNCHANGED << due, came, entries, triggered, task, at, call, todo >>

\* pollwake, __pollwake: triggered first, then the task is woken.
PollWake(f, b) ==
    /\ << f, b >> \in due /\ due' = due \ {<< f, b >>}
    /\ IF b \in entries[f] THEN triggered' = TRUE /\ task' = "runs"
       ELSE UNCHANGED << triggered, task >>
    /\ UNCHANGED << status, came, entries, at, call, todo >>

-----------------------------------------------------------------------------
(* The task.                                                                *)

\* poll_initwait. With a timeout of zero nothing is hooked.
Enter(c, zero) ==
    /\ at = "user" /\ at' = "ask"
    /\ call' = [NoCall EXCEPT !.fn = c.fn, !.want = c.want, !.timed = zero, !.hooks = ~zero]
    /\ triggered' = FALSE /\ todo' = Files
    /\ UNCHANGED << outside, entries, task >>

\* wait_key_set wakes select for "ex" in any case; do_pollfd only for what it asks.
Key(f) == call.want[f] \cup (IF call.fn = "select" THEN {"ex"} ELSE {})

\* do_select and do_pollfd skip what nobody asks about. The poll method of a file
\* calls __pollwait before it looks; an entry may find no memory.
Skip ==
    /\ at = "ask" /\ todo # << >> /\ call.want[Head(todo)] = {}
    /\ todo' = Tail(todo)
    /\ UNCHANGED << outside, entries, triggered, task, at, call >>

Hook(memory) ==
    /\ at = "ask" /\ todo # << >> /\ call.want[Head(todo)] # {}
    /\ IF ~call.hooks THEN memory /\ UNCHANGED << entries, call >>
       ELSE IF memory THEN entries' = [entries EXCEPT ![Head(todo)] = Key(Head(todo))]
                           /\ UNCHANGED call
       ELSE call' = [call EXCEPT !.error = TRUE] /\ UNCHANGED entries
    /\ at' = "look"
    /\ UNCHANGED << outside, triggered, task, todo >>

\* What is found is remembered, and nothing further is hooked.
Look ==
    LET f    == Head(todo)
        mask == status[f] \cap call.want[f]
    IN  /\ at = "look" /\ at' = "ask" /\ todo' = Tail(todo)
        /\ call' = [call EXCEPT !.found = @ \cup ({f} \X mask),
                                !.hooks = @ /\ mask = {}]
        /\ UNCHANGED << outside, entries, triggered, task >>

\* The end of a loop: poll_freewait and return, or sleep.
Returns == call.found # {} \/ call.timed \/ call.signal \/ call.error

EndLoop ==
    /\ at = "ask" /\ todo = << >>
    /\ IF Returns
       THEN /\ at' = "user" /\ call' = NoCall
            /\ entries' = [f \in Range(Files) |-> {}] /\ UNCHANGED task
       ELSE /\ at' = "schedule" /\ task' = "sleepy"
            /\ call' = [call EXCEPT !.hooks = FALSE] /\ UNCHANGED entries
    /\ UNCHANGED << outside, triggered, todo >>

\* Mutant: a wake-up between the look and the sleep does not count.
SleepsAnyway == task = "sleepy"

\* poll_schedule_timeout.
Sleeps == ~triggered /\ task = "sleepy"

Schedule ==
    /\ at = "schedule"
    /\ IF Sleeps THEN at' = "asleep" /\ UNCHANGED task
                 ELSE at' = "awake" /\ task' = "runs"
    /\ UNCHANGED << outside, entries, triggered, call, todo >>

Timeout ==
    /\ at = "asleep" /\ task = "sleepy"
    /\ call' = [call EXCEPT !.timed = TRUE] /\ task' = "runs"
    /\ UNCHANGED << outside, entries, triggered, at, todo >>

Signal ==
    /\ at # "user" /\ ~call.signal
    /\ call' = [call EXCEPT !.signal = TRUE] /\ task' = "runs"
    /\ UNCHANGED << outside, entries, triggered, at, todo >>

Woken ==
    /\ at = "asleep" /\ task = "runs" /\ at' = "awake"
    /\ UNCHANGED << outside, entries, triggered, task, call, todo >>

\* triggered is cleared before the files are asked again.
Again ==
    /\ at = "awake" /\ at' = "ask"
    /\ triggered' = FALSE /\ todo' = Files
    /\ UNCHANGED << outside, entries, task, call >>

Next ==
    \/ \E f \in Range(Files), b \in Kinds : Arrive(f, b) \/ Consume(f, b) \/ PollWake(f, b)
    \/ \E c \in Calls, zero \in BOOLEAN : Enter(c, zero)
    \/ \E memory \in BOOLEAN : Hook(memory)
    \/ Skip \/ Look \/ EndLoop \/ Schedule \/ Timeout \/ Signal \/ Woken \/ Again

Spec == Init /\ [][Next]_pollvars

-----------------------------------------------------------------------------
(* Properties.                                                              *)

\* The task does not sleep on an event it waits for: once it sleeps, whatever it
\* asked about is not there, or its wake-up is still to come.
SleepsOnNothing ==
    at = "asleep" /\ task = "sleepy"
        => \A f \in Range(Files) : \A b \in status[f] \cap call.want[f] : << f, b >> \in due
=============================================================================
