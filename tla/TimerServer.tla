---------------------------- MODULE TimerServer ----------------------------
(***************************************************************************)
(* The epoll server of network/timer (server.cc and main.cc): one thread   *)
(* that echoes, relays a chat or serves files, and closes connections that *)
(* stay idle. I/O and timers are told apart by what epoll_wait returns.    *)
(*                                                                         *)
(* Time is relative: a timer holds the ticks it has left, negative when it *)
(* is overdue. The header that declares TimerManager and TimerObj is not   *)
(* in the repository; README.md describes an ascending list of timers, and *)
(* server.cc shows what it asks of them.                                   *)
(***************************************************************************)
EXTENDS Integers, Sequences, SequencesExt, Functions, FiniteSetsExt

CONSTANTS Clients,    \* client processes, one connection each
          Modes,      \* the modes the server may be started in
          Files,      \* names of the files that can be opened
          NoFile,     \* a name that cannot
          Resetters,  \* clients that may reset their connection
          Timeout,    \* TIMEOUT
          FileTimes,  \* 5: how much longer TIMEOUT is for a file transfer
          MaxSends,   \* bound: how many times a client may write, by mode
          Late        \* bound: how long a timer may be overdue

ASSUME ServerAssumption ==
    /\ IsFiniteSet(Clients)
    /\ Modes \subseteq {"echo", "chat", "transfile"}
    /\ NoFile \notin Files
    /\ Resetters \subseteq Clients
    /\ Timeout \in Nat \ {0}
    /\ FileTimes \in Nat \ {0}
    /\ MaxSends \in [Modes -> Nat]
    /\ Late \in Nat \ {0}

VARIABLES
    mode,     \* g_option
    running,  \* FALSE once an assertion has failed
    pc,       \* where the loop is: "loop", waiting "timed" or "forever", "batch"
    batch,    \* the events epoll_wait returned that are still to be handled
    users,    \* g_users_map: fd -> client, interest, buf_, timer_
    timers,   \* g_timer_manager: timer object -> fd and ticks left
    backlog,  \* connections still to be accepted
    cli,      \* the client's end
    up,       \* what is on its way to the server
    written,  \* history: what the client wrote
    told,     \* history: what the server sent to the client
    idle,     \* history: ticks since the server last heard of the client
    gone      \* the clients whose connection the server has closed

clientVars == << cli, written >>
vars == << mode, running, pc, batch, users, timers, backlog, clientVars, up, told,
           idle, gone >>

Fds    == 1 .. Cardinality(Clients)
Timers == 1 .. Cardinality(Clients) + 1
Fin    == [k |-> "fin"]
Rst    == [k |-> "rst"]
Item   == [who : Clients, i : 1 .. MaxSends[mode], name : Files \cup {NoFile}]
File   == [file : Files]
Listen == [k |-> "accept"]
Event  == {Listen} \cup [k : {"in", "out"}, fd : Fds]
User   == [who : Clients, interest : SUBSET {"in", "out"}, buf : Seq(Item \cup File),
           timer : Timers]

\* How long a connection may be idle at most, by README.md.
Longest == IF mode = "transfile" THEN Timeout * FileTimes ELSE Timeout

TypeOK ==
    /\ mode \in Modes
    /\ running \in BOOLEAN
    /\ pc \in {"loop", "timed", "forever", "batch"}
    /\ batch \subseteq Event
    /\ DOMAIN users \subseteq Fds /\ \A fd \in DOMAIN users : users[fd] \in User
    /\ DOMAIN timers \subseteq Timers
    /\ \A tm \in DOMAIN timers :
          timers[tm] \in [fd : Fds, left : -Late .. Timeout * FileTimes]
    /\ backlog \in Seq(Clients)
    /\ cli \in [Clients -> {"init", "open", "closed"}]
    /\ up \in [Clients -> Seq(Item \cup {Fin, Rst})]
    /\ written \in [Clients -> Seq(Item)]
    /\ told \in [Clients -> Seq(Item \cup File)]
    /\ idle \in [Clients -> 0 .. Longest]
    /\ gone \subseteq Clients

Init ==
    /\ mode \in Modes
    /\ running = TRUE
    /\ pc = "loop"
    /\ batch = {}
    /\ users = << >>
    /\ timers = << >>
    /\ backlog = << >>
    /\ cli = [c \in Clients |-> "init"]
    /\ up = [c \in Clients |-> << >>]
    /\ written = [c \in Clients |-> << >>]
    /\ told = [c \in Clients |-> << >>]
    /\ idle = [c \in Clients |-> 0]
    /\ gone = {}

\* Lowest number of set S that function f does not use: descriptors are
\* allotted so, and timer objects may as well be.
Lowest(S, f) == Min(S \ DOMAIN f)

\* A map with an entry put in.
With(f, x, v) == [y \in DOMAIN f \cup {x} |-> IF y = x THEN v ELSE f[y]]

-----------------------------------------------------------------------------
(* The clients and the clock.                                               *)

serverVars == << mode, running, pc, batch, users, timers, told, gone >>

Connect(c) ==
    /\ cli[c] = "init"
    /\ cli' = [cli EXCEPT ![c] = "open"]
    /\ backlog' = Append(backlog, c)
    /\ UNCHANGED << serverVars, written, up, idle >>

Write(c) ==
    /\ cli[c] = "open" /\ c \notin gone
    /\ Len(written[c]) < MaxSends[mode]
    /\ \E f \in IF mode = "transfile" THEN Files \cup {NoFile} ELSE {NoFile} :
          LET item == [who |-> c, i |-> Len(written[c]) + 1, name |-> f]
          IN  /\ written' = [written EXCEPT ![c] = Append(@, item)]
              /\ up' = [up EXCEPT ![c] = Append(@, item)]
    /\ UNCHANGED << serverVars, cli, backlog, idle >>

\* The client closes after what it wrote, or resets: what the server's host has
\* of it can still be read, the rest is lost.
CloseClient(c) ==
    /\ cli[c] = "open"
    /\ cli' = [cli EXCEPT ![c] = "closed"]
    /\ \/ up' = [up EXCEPT ![c] = Append(@, Fin)]
       \/ /\ c \in Resetters
          /\ \E n \in 0 .. Len(up[c]) :
                up' = [up EXCEPT ![c] = Append(SubSeq(@, 1, n), Rst)]
    /\ UNCHANGED << serverVars, written, backlog, idle >>

Tick ==
    /\ running
    /\ \A tm \in DOMAIN timers : timers[tm].left > -Late
    /\ timers' = [tm \in DOMAIN timers |-> [timers[tm] EXCEPT !.left = @ - 1]]
    /\ idle' = [c \in Clients |->
                   IF \E fd \in DOMAIN users : users[fd].who = c
                   THEN Min({idle[c] + 1, Longest}) ELSE idle[c]]
    /\ UNCHANGED << mode, running, pc, batch, users, told, gone, clientVars,
                    backlog, up >>

-----------------------------------------------------------------------------
(* UnifyEvent.                                                              *)

\* GetMinExpireTime.
MinLeft == Min({timers[tm].left : tm \in DOMAIN timers})

\* delta: with no timer, or with one already overdue, it is -1 and epoll_wait
\* has no time limit.
EpollWait ==
    /\ running /\ pc = "loop"
    /\ pc' = IF timers = << >> \/ MinLeft < 0 THEN "forever" ELSE "timed"
    /\ UNCHANGED << mode, running, batch, users, timers, told, gone, clientVars,
                    backlog, up, idle >>

\* What is ready: main.cc looks at EPOLLOUT only if there is no EPOLLIN. Every
\* socket is writable, one that was reset too.
Ready ==
    {[k |-> IF "in" \in users[fd].interest /\ up[users[fd].who] # << >>
            THEN "in" ELSE "out", fd |-> fd] :
        fd \in {f \in DOMAIN users :
                   \/ "out" \in users[f].interest
                   \/ "in" \in users[f].interest /\ up[users[f].who] # << >>}}
      \cup IF backlog = << >> THEN {} ELSE {Listen}

EpollReturns ==
    /\ running /\ pc \in {"timed", "forever"}
    /\ Ready # {}
    /\ batch' = Ready
    /\ pc' = "batch"
    /\ UNCHANGED << mode, running, users, timers, told, gone, clientVars, backlog,
                    up, idle >>

\* What cb_func leaves of the map when it closes a set of descriptors.
UsersWithout(fds) == Restrict(users, DOMAIN users \ fds)

\* epoll_wait returned 0; and with what it returned not looked at.
Returned == pc \in {"timed", "batch"} /\ timers # << >>

TimedOut == pc = "timed" /\ Ready = {}

\* CheckExpired(expire_time) calls cb_func for every timer of the earliest
\* expiry time, and drops it.
CheckExpired ==
    /\ running
    /\ TimedOut /\ MinLeft <= 0
    /\ LET due == {tm \in DOMAIN timers : timers[tm].left = MinLeft}
           fds == {timers[tm].fd : tm \in due}
       IN  /\ users' = UsersWithout(fds)
           /\ timers' = Restrict(timers, DOMAIN timers \ due)
           /\ gone' = gone \cup {users[fd].who : fd \in fds}
    /\ pc' = "loop"
    /\ UNCHANGED << mode, running, batch, told, clientVars, backlog, up, idle >>

-----------------------------------------------------------------------------
(* The handlers: each takes its event off the batch, and the last one goes   *)
(* back to UnifyEvent.                                                       *)

Handling(e) ==
    /\ running /\ pc = "batch" /\ e \in batch
    /\ batch' = batch \ {e}
    /\ pc' = IF batch = {e} THEN "loop" ELSE "batch"

\* ProcAccept: the first timer has TIMEOUT in every mode.
ProcAccept ==
    /\ Handling(Listen)
    /\ LET c  == Head(backlog)
           fd == Lowest(Fds, users)
           tm == Lowest(Timers, timers)
       IN  /\ users' = With(users, fd, [who |-> c, interest |-> {"in"}, buf |-> << >>,
                                       timer |-> tm])
           /\ timers' = With(timers, tm, [fd |-> fd, left |-> Timeout])
           /\ idle' = [idle EXCEPT ![c] = 0]
    /\ backlog' = Tail(backlog)
    /\ UNCHANGED << mode, running, told, gone, clientVars, up >>

\* recv returned 0 or an error: cb_func, then StopTimer.
ProcReadClosed(fd) ==
    LET c == users[fd].who IN
    /\ Handling([k |-> "in", fd |-> fd])
    /\ Head(up[c]) \in {Fin, Rst}
    /\ timers' = Restrict(timers, DOMAIN timers \ {users[fd].timer})
    /\ users' = UsersWithout({fd})
    /\ gone' = gone \cup {c}
    /\ up' = [up EXCEPT ![c] = << >>]
    /\ UNCHANGED << mode, running, told, clientVars, backlog, idle >>

\* StopTimer on the connection's timer and StartTimer on a new one, tm; with
\* StopTimer forgotten; and with delta taken for milliseconds.
RestartKeepingOld(fd, tm, delta) == With(timers, tm, [fd |-> fd, left |-> delta])

RestartInMillis(fd, tm, delta) ==
    With(Restrict(timers, DOMAIN timers \ {users[fd].timer}), tm,
         [fd |-> fd, left |-> delta * 1000])

RestartTimer(fd, tm, delta) ==
    With(Restrict(timers, DOMAIN timers \ {users[fd].timer}), tm,
         [fd |-> fd, left |-> delta])

\* Everyone in the map, and everyone but the sender (Chat).
EveryUser(fd) == DOMAIN users

Audience(fd) == DOMAIN users \ {fd}

\* What Echo, Chat and TransFile leave in the map after data came from fd: a
\* buffer to send, and an interest in writing alone. TransFile leaves the
\* buffer alone when the file cannot be opened.
AfterData(fd, data) ==
    CASE mode = "echo" ->
           [users EXCEPT ![fd].buf = data, ![fd].interest = {"out"}]
      [] mode = "chat" ->
           [f \in DOMAIN users |->
               IF f \in Audience(fd)
               THEN [users[f] EXCEPT !.buf = data, !.interest = {"out"}]
               ELSE users[f]]
      [] mode = "transfile" ->
           [users EXCEPT
               ![fd].buf = IF Len(data) = 1 /\ data[1].name \in Files
                           THEN << [file |-> data[1].name] >> ELSE @,
               ![fd].interest = {"out"}]

\* recv returned data: any part of what is on its way that comes before a FIN.
\* TIMEOUT is five times as long for a file transfer.
ProcReadData(fd) ==
    LET c  == users[fd].who
        tm == Lowest(Timers, timers)
    IN
    /\ Handling([k |-> "in", fd |-> fd])
    /\ \E n \in 1 .. Len(up[c]) :
          /\ \A i \in 1 .. n : up[c][i] \in Item
          /\ users' = [AfterData(fd, SubSeq(up[c], 1, n)) EXCEPT ![fd].timer = tm]
          /\ up' = [up EXCEPT ![c] = SubSeq(@, n + 1, Len(@))]
    /\ timers' = RestartTimer(fd, tm, Longest)
    /\ idle' = [idle EXCEPT ![c] = 0]
    /\ UNCHANGED << mode, running, told, gone, clientVars, backlog >>

\* What the connection waits for once its buffer is sent; with EPOLLOUT left on;
\* and with EPOLLIN forgotten.
StillOutput == {"in", "out"}

NeverInput == {}

AfterOutput == {"in"}

\* HandleOutput: the buffer is sent if it is not empty, and never cleared. A
\* send to a connection that was reset fails, and assert(len == nsize) with it.
HandleOutput(fd) ==
    LET c == users[fd].who IN
    /\ Handling([k |-> "out", fd |-> fd])
    /\ IF users[fd].buf # << >> /\ up[c] # << >> /\ Last(up[c]) = Rst
       THEN running' = FALSE /\ UNCHANGED << users, told >>
       ELSE /\ told' = [told EXCEPT ![c] = @ \o users[fd].buf]
            /\ users' = [users EXCEPT ![fd].interest = AfterOutput]
            /\ UNCHANGED running
    /\ UNCHANGED << mode, timers, gone, clientVars, backlog, up, idle >>

HandleEvent ==
    \/ ProcAccept
    \/ \E fd \in DOMAIN users : ProcReadClosed(fd) \/ ProcReadData(fd) \/ HandleOutput(fd)

-----------------------------------------------------------------------------

Next ==
    \/ \E c \in Clients : Connect(c) \/ Write(c) \/ CloseClient(c)
    \/ Tick
    \/ EpollWait
    \/ EpollReturns
    \/ CheckExpired
    \/ HandleEvent

Spec == Init /\ [][Next]_vars

-----------------------------------------------------------------------------
(* Properties.                                                              *)

\* Every connection has one timer and every timer one connection. A timer that
\* outlived its connection would close whoever got the descriptor next
\* (ProcRead, which stops the old timer after cb_func or before a restart).
OneTimerEach ==
    /\ \A fd \in DOMAIN users :
          users[fd].timer \in DOMAIN timers /\ timers[users[fd].timer].fd = fd
    /\ \A tm \in DOMAIN timers :
          timers[tm].fd \in DOMAIN users /\ users[timers[tm].fd].timer = tm

\* No event of a batch is for a descriptor that a handler of the same batch
\* closed: g_users_map[fd] would insert a null pointer and follow it.
BatchIsLive == \A e \in batch : e # Listen => e.fd \in DOMAIN users

\* The server closes for idleness only a connection that it has not heard of
\* for TIMEOUT (README.md of timer).
ClosedOnlyIdle ==
    [][\A c \in gone' \ gone :
          (\E fd \in DOMAIN users : users[fd].who = c /\ up[c] # << >>)
              \/ idle[c] >= Timeout]_vars

\* An echo comes back as it was written, in order, nothing twice and nothing
\* of another connection, whatever parts it is read in (Echo, HandleOutput).
EchoFaithful == mode = "echo" => \A c \in Clients : IsPrefix(told[c], written[c])

\* In a chat a client is told what others wrote, each line at most once and in
\* the order its writer wrote it; a line may be lost when the next one comes
\* before it was sent (SetConnData2Cache overwrites).
ChatInOrder ==
    mode = "chat" =>
        \A c \in Clients : \A j \in 1 .. Len(told[c]) :
            /\ told[c][j].who # c
            /\ \A i \in 1 .. j - 1 :
                  told[c][i].who = told[c][j].who => told[c][i].i < told[c][j].i

-----------------------------------------------------------------------------
(* Fairness: the loop goes on, a wait ends when something is ready or its    *)
(* time is up, every event of a batch is handled, and time passes.           *)

Fairness ==
    /\ WF_vars(EpollWait)
    /\ WF_vars(EpollReturns)
    /\ WF_vars(CheckExpired)
    /\ WF_vars(HandleEvent)
    /\ WF_vars(Tick)

FairSpec == Spec /\ Fairness

\* Whatever is written to an echo server comes back, unless the connection is
\* closed or an assertion stops the server.
EchoReplied ==
    \A c \in Clients :
        mode = "echo" /\ written[c] # told[c]
            ~> written[c] = told[c] \/ c \in gone \/ cli[c] # "open" \/ ~running

\* README.md of timer: a connection to the echo or chat service without data for
\* 60 seconds is closed by its timer.
IdleIsClosed ==
    \A c \in Clients :
        mode # "transfile" /\ idle[c] = Timeout
            ~> idle[c] # Timeout \/ c \in gone \/ ~running

\* README.md of timer: for a file transfer it is 300 seconds, five times as long.
FileIdleIsLonger ==
    [][mode = "transfile" =>
          \A c \in gone' \ gone :
             (\E fd \in DOMAIN users : users[fd].who = c /\ up[c] # << >>)
                 \/ idle[c] >= Timeout * FileTimes]_vars

=============================================================================
