----------------------------- MODULE SelectCall -----------------------------
(***************************************************************************)
(* fs/select.c and fs/eventpoll.c around the waiting that PollSelect.tla   *)
(* and Epoll.tla model: select, pselect, poll, ppoll, epoll_wait and       *)
(* epoll_pwait of one task, their timeouts, what a signal does to them,    *)
(* and how they are restarted. Time is in ticks; copying from and to user  *)
(* memory succeeds but for a timeout in read-only memory, and there are    *)
(* enough descriptors and memory.                                          *)
(*                                                                         *)
(* A call that comes with a signal mask comes to let a signal through that *)
(* the task blocks otherwise; without a mask nothing blocks it.            *)
(***************************************************************************)
EXTENDS Integers, Sequences, FiniteSetsExt

CONSTANTS Timeouts,    \* what a call may ask for; NoTimeout is none
          MaxNow,      \* bound: the clock
          MaxSignals   \* bound: signals that arrive

VARIABLES
    now,
    call,      \* its function, whether with a mask, whether the timeout stays as it is
    tsp,       \* the timeout in user memory
    end,       \* end_time: None, Zero or a time
    at, ret,
    ready,     \* a descriptor of the call has an event
    answered,  \* the sets in user memory hold the answer instead of the question
    mask,      \* current->blocked
    restore,   \* set_restore_sigmask
    pending, signals,
    caught,    \* history: what was done of the signals of the call
    deadline   \* history: when the first attempt should time out

clock == << now, pending, signals, ready >>
vars == << clock, call, tsp, end, at, ret, answered, mask, restore, caught, deadline >>

NoTimeout == -2
None == -1
Zero == 0

CallAssumption == Timeouts \subseteq Nat \cup {NoTimeout} /\ {MaxNow, MaxSignals} \subseteq Nat

Selects == {"select", "pselect"}
Epolls  == {"epoll_wait", "epoll_pwait"}
Writes  == {"select", "pselect", "ppoll"}    \* those that write the timeout
Calls   == [fn : {"select"}, masked : {FALSE}, sticky : BOOLEAN]
           \cup [fn : {"pselect", "ppoll"}, masked : BOOLEAN, sticky : BOOLEAN]
           \cup [fn : {"poll", "epoll_wait"}, masked : {FALSE}, sticky : {FALSE}]
           \cup [fn : {"epoll_pwait"}, masked : BOOLEAN, sticky : {FALSE}]

Blocked == pending /\ call.masked /\ mask = "own"
SignalPending == pending /\ ~Blocked

Init ==
    /\ now = 1 /\ tsp = NoTimeout /\ end = None
    /\ call = [fn |-> "poll", masked |-> FALSE, sticky |-> FALSE]
    /\ at = "user" /\ ret = "none" /\ ready = FALSE /\ answered = FALSE
    /\ mask = "own" /\ restore = FALSE /\ pending = FALSE /\ signals = 0
    /\ caught = "none" /\ deadline = 0

-----------------------------------------------------------------------------
(* The world.                                                               *)

Tick ==
    /\ now < MaxNow /\ now' = now + 1
    /\ UNCHANGED << pending, signals, ready, call, tsp, end, at, ret, answered, mask,
                    restore, caught, deadline >>

Signal ==
    /\ ~pending /\ signals < MaxSignals /\ at # "user"
    /\ pending' = TRUE /\ signals' = signals + 1
    /\ UNCHANGED << now, ready, call, tsp, end, at, ret, answered, mask, restore, caught,
                    deadline >>

Arrive ==
    /\ ~ready /\ ready' = TRUE
    /\ UNCHANGED << now, pending, signals, call, tsp, end, at, ret, answered, mask,
                    restore, caught, deadline >>

-----------------------------------------------------------------------------
(* Into the kernel.                                                         *)

\* poll_select_set_timeout.
EndTime(t) == IF t = NoTimeout THEN None ELSE IF t = 0 THEN Zero ELSE now + t

\* A call by the program, whose function, mask and kind of memory are chosen.
Enter(c, t) ==
    /\ at = "user" /\ ret = "none"
    /\ call' = c /\ tsp' = t
    /\ end' = EndTime(t)
    /\ mask' = IF c.masked THEN "call" ELSE mask
    /\ at' = "waits"
    /\ deadline' = IF t = NoTimeout THEN 0 ELSE now + t
    /\ UNCHANGED << clock, ret, answered, restore, caught >>

TimedOut == end = Zero \/ (end # None /\ now >= end)

\* core_sys_select: what do_select found is copied out, and nothing of a call
\* that is to be restarted, which may have timed out as well.
CoreSysSelect ==
    /\ at = "waits" /\ call.fn \in Selects
    /\ ready \/ TimedOut \/ SignalPending
    /\ ret' = IF ready THEN "found" ELSE IF SignalPending THEN "ERESTARTNOHAND" ELSE "nothing"
    /\ answered' = (ready \/ ~SignalPending)
    /\ at' = "copies"
    /\ UNCHANGED << clock, call, tsp, end, mask, restore, caught, deadline >>

\* do_sys_poll.
DoSysPoll ==
    /\ at = "waits" /\ call.fn \in {"poll", "ppoll"}
    /\ ready \/ TimedOut \/ SignalPending
    /\ ret' = IF ready THEN "found" ELSE IF SignalPending THEN "EINTR" ELSE "nothing"
    /\ at' = IF call.fn = "ppoll" THEN "unmasks" ELSE "leaves"
    /\ UNCHANGED << clock, call, tsp, end, answered, mask, restore, caught, deadline >>

\* epoll_wait: a timeout that has passed counts more than a signal.
EpollWait ==
    /\ at = "waits" /\ call.fn \in Epolls
    /\ ready \/ TimedOut \/ SignalPending
    /\ ret' = IF ready THEN "found" ELSE IF TimedOut THEN "nothing" ELSE "EINTR"
    /\ at' = IF call.fn = "epoll_pwait" THEN "unmasks" ELSE "leaves"
    /\ UNCHANGED << clock, call, tsp, end, answered, mask, restore, caught, deadline >>

-----------------------------------------------------------------------------
(* Out of it.                                                               *)

\* poll_select_copy_remaining: the timeout and the result afterwards. Without
\* the remaining time the call cannot be restarted.
Remaining(r) ==
    IF tsp = NoTimeout THEN << tsp, r >>
    ELSE IF call.sticky /\ end # Zero THEN << tsp, IF r = "ERESTARTNOHAND" THEN "EINTR" ELSE r >>
    ELSE IF end = Zero THEN << tsp, r >>
    ELSE << Max({0, end - now}), r >>

CopyRemaining ==
    /\ at = "copies"
    /\ tsp' = Remaining(ret)[1] /\ ret' = Remaining(ret)[2]
    /\ at' = IF call.fn = "pselect" THEN "unmasks" ELSE "leaves"
    /\ UNCHANGED << clock, call, end, answered, mask, restore, caught, deadline >>

\* do_pselect puts the mask back, or leaves that to the delivery of the signal
\* if the call is still to be restarted.
UnmaskSelect ==
    /\ at = "unmasks" /\ call.fn = "pselect"
    /\ restore' = (call.masked /\ ret = "ERESTARTNOHAND")
    /\ mask' = IF restore' THEN mask ELSE "own"
    /\ at' = "leaves"
    /\ UNCHANGED << clock, call, tsp, end, ret, answered, caught, deadline >>

\* ppoll does so before it copies the remaining time.
UnmaskPoll ==
    /\ at = "unmasks" /\ call.fn = "ppoll"
    /\ restore' = (call.masked /\ ret = "EINTR")
    /\ mask' = IF restore' THEN mask ELSE "own"
    /\ ret' = IF ret = "EINTR" THEN "ERESTARTNOHAND" ELSE ret
    /\ at' = "copies"
    /\ UNCHANGED << clock, call, tsp, end, answered, caught, deadline >>

\* epoll_pwait gives EINTR back as it is: it cannot be restarted.
UnmaskEpoll ==
    /\ at = "unmasks" /\ call.fn = "epoll_pwait"
    /\ restore' = (call.masked /\ ret = "EINTR")
    /\ mask' = IF restore' THEN mask ELSE "own"
    /\ at' = "leaves"
    /\ UNCHANGED << clock, call, tsp, end, ret, answered, caught, deadline >>

\* poll keeps end_time in the restart block.
Leaving == IF call.fn = "poll" /\ ret = "EINTR" THEN "ERESTART_RESTARTBLOCK" ELSE ret
Restartable == {"ERESTARTNOHAND", "ERESTART_RESTARTBLOCK"}

\* On the way back a signal that is let through is delivered: a handler makes
\* of a restart EINTR.
Handle ==
    /\ at = "leaves" /\ SignalPending
    /\ ret' = IF Leaving \in Restartable THEN "EINTR" ELSE ret
    /\ pending' = FALSE /\ caught' = "handler"
    /\ mask' = "own" /\ restore' = FALSE /\ at' = "user"
    /\ UNCHANGED << now, signals, ready, call, tsp, end, answered, deadline >>

\* A signal without one, as SIGCONT, has the call made again: with its arguments
\* as they are now, or by do_restart_poll with the end that was kept.
Restart ==
    /\ at = "leaves" /\ SignalPending /\ Leaving \in Restartable
    /\ pending' = FALSE /\ restore' = FALSE
    /\ end' = IF Leaving = "ERESTARTNOHAND" THEN EndTime(tsp) ELSE end
    /\ mask' = IF call.masked THEN "call" ELSE "own"
    /\ at' = "waits" /\ ret' = "none"
    /\ UNCHANGED << now, signals, ready, call, tsp, answered, caught, deadline >>

\* Another call returns after it as if a handler had run.
Ignore ==
    /\ at = "leaves" /\ SignalPending /\ Leaving \notin Restartable
    /\ pending' = FALSE /\ caught' = IF caught = "none" THEN "signal" ELSE caught
    /\ mask' = "own" /\ restore' = FALSE
    /\ UNCHANGED << now, signals, ready, call, tsp, end, at, ret, answered, deadline >>

Return ==
    /\ at = "leaves" /\ ~SignalPending
    /\ at' = "user"
    /\ UNCHANGED << clock, call, tsp, end, ret, answered, mask, restore, caught, deadline >>

Next ==
    \/ Tick \/ Signal \/ Arrive
    \/ \E c \in Calls, t \in Timeouts : Enter(c, t)
    \/ CoreSysSelect \/ DoSysPoll \/ EpollWait
    \/ CopyRemaining \/ UnmaskSelect \/ UnmaskPoll \/ UnmaskEpoll
    \/ Handle \/ Restart \/ Ignore \/ Return

Spec == Init /\ [][Next]_vars

-----------------------------------------------------------------------------
(* max_select_fd: the descriptors below n in any of the sets, word by word. *)

EBADF == -9

\* What the words read so far come to, with the next one: an error stays, and the
\* first descriptor found is the largest.
WithWord(word, open, max) ==
    IF max = EBADF \/ ~(word \subseteq open) THEN EBADF
    ELSE IF max = 0 /\ word # {} THEN Max(word) + 1 ELSE max

\* The incomplete word is read first.
max_select_fd(n, set, open, bits) ==
    LET words == n \div bits
        Word(k) == {b \in set : b < n /\ b \div bits = k}
        max[i \in 0 .. words] ==
            WithWord(Word(words - i), open, IF i = 0 THEN 0 ELSE max[i - 1])
    IN  max[words]

-----------------------------------------------------------------------------
(* Properties.                                                              *)

TypeOK ==
    /\ now \in 1 .. MaxNow /\ call \in Calls /\ {tsp, deadline} \subseteq Int
    /\ end \in None .. (MaxNow + Max(Timeouts))
    /\ at \in {"user", "waits", "copies", "unmasks", "leaves"}
    /\ ret \in {"none", "found", "nothing", "EINTR", "ERESTARTNOHAND"}
    /\ {ready, answered, restore, pending} \subseteq BOOLEAN
    /\ caught \in {"none", "signal", "handler"}
    /\ mask \in {"own", "call"} /\ signals \in 0 .. MaxSignals

\* However often it is restarted, a call says "nothing" only when its first
\* timeout has passed (select loses less than a microsecond each time, which is
\* no tick), and leaves nothing of it in memory; restarts put off the end of the
\* calls that are restarted with what remains, and never that of poll.
NeverEarly ==
    /\ ret = "nothing" => deadline > 0 /\ now >= deadline
    /\ at = "waits" /\ end > Zero => end >= deadline
    /\ at = "waits" /\ end > Zero /\ call.fn = "poll" => end = deadline
    /\ at = "leaves" /\ ret = "nothing" /\ ~call.sticky /\ call.fn \in Writes => tsp = 0

\* A call that is restarted, or fails, finds its sets as they were given.
SetsIntact ==
    call.fn \in Selects => (answered <=> ret \in {"found", "nothing"})

\* The mask of the call is on while it waits, and the program's own is back
\* whenever it returns.
MaskBack ==
    /\ at = "user" => mask = "own" /\ ~restore
    /\ at = "waits" => (mask = "call" <=> call.masked)

\* EINTR means that a signal came through, and from the calls that are restarted
\* that a handler ran. Only pselect with a timeout it cannot update says so while
\* the signal it let through is blocked again, for it copies the remaining time
\* before it looks whether the mask has to stay (select.c:681).
Interrupted ==
    at = "user" /\ ret = "EINTR" =>
        /\ caught # "none" \/ (call.fn = "pselect" /\ call.masked /\ call.sticky)
        /\ caught = "handler" \/ call.sticky \/ call.fn \in Epolls

\* A bad descriptor is found in whichever word it is, and otherwise the count is
\* one more than the largest.
CountsDescriptors ==
    at = "user" => \A n \in 0 .. 5, set \in SUBSET (0 .. 5) :
        LET asked == {b \in set : b < n}
            open  == {0, 1, 2, 4}
        IN  max_select_fd(n, set, open, 2)
            = (IF ~(asked \subseteq open) THEN EBADF ELSE IF asked = {} THEN 0 ELSE Max(asked) + 1)

CallSound == NeverEarly /\ SetsIntact /\ MaskBack /\ Interrupted /\ CountsDescriptors
=============================================================================
