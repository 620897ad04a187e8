------------------------------- MODULE AeEcho -------------------------------
(***************************************************************************)
(* The file events of the ae event loop (ae.c, ae_epoll.c) with the three  *)
(* handlers of echo.hpp on them: one thread, a listening socket, clients   *)
(* that write, close and reset.                                            *)
(*                                                                         *)
(* aeProcessEvents takes the fired descriptors one by one and looks at the *)
(* registered mask again before each handler, because a handler may have   *)
(* closed a descriptor, and accept may have got its number again.          *)
(***************************************************************************)
EXTENDS Integers, Sequences, SequencesExt, FiniteSets, FiniteSetsExt, Functions

CONSTANTS Clients,
          SetSize,    \* of aeCreateEventLoop; in testEcho.cc far more than clients
          MaxLines,   \* bound: client -> how many lines it writes
          Buffers     \* addresses; calloc takes the first that is free

EchoAssumption ==
    /\ IsFiniteSet(Clients) /\ "none" \notin Clients
    /\ MaxLines \in [Clients -> Nat]
    /\ IsFiniteSet(Buffers) /\ Buffers \subseteq Nat \ {0}
    /\ Cardinality(Buffers) >= Cardinality(Clients)

VARIABLES
    peer,     \* client -> "new", "syn", "up", "fin" or "rst"
    rx,       \* client -> lines written, not read yet
    sock,     \* descriptor -> the client behind it
    interest, \* descriptor -> what epoll watches it for
    mask,     \* eventLoop->events[fd].mask
    data,     \* eventLoop->events[fd].clientData
    maxfd,
    buf,      \* allocated EchoBuf -> the client it was made for, and its buf
    fired,    \* what is left of eventLoop->fired
    turn,     \* "poll", or which handler of the first of them comes next
    wrote,    \* bound: lines written by each client
    echoed,   \* history: client -> lines it was sent
    killed    \* by SIGPIPE

net   == << peer, rx, wrote >>
table == << mask, data, maxfd >>
vars  == << net, sock, interest, table, buf, fired, turn, echoed, killed >>

Listen  == 3
Sockets == 4 .. 3 + Cardinality(Clients)
Fds     == {Listen} \cup Sockets
None    == "none"
NULL    == 0

TypeOK ==
    /\ peer \in [Clients -> {"new", "syn", "up", "fin", "rst"}]
    /\ rx \in [Clients -> Seq(Clients \X Nat)]
    /\ echoed \in [Clients -> Seq(Clients \X Nat)]
    /\ sock \in [Sockets -> Clients \cup {None}]
    /\ interest \in [Fds -> SUBSET {"R", "W"}] /\ mask \in [Fds -> SUBSET {"R", "W"}]
    /\ data \in [Sockets -> Buffers \cup {NULL}] /\ maxfd \in Fds
    /\ DOMAIN buf \subseteq Buffers
    /\ turn \in {"poll", "read", "write"} /\ turn # "poll" <=> fired # << >>

\* main of testEcho.cc.
Init ==
    /\ peer = [c \in Clients |-> "new"] /\ rx = [c \in Clients |-> << >>]
    /\ sock = [s \in Sockets |-> None]
    /\ interest = [f \in Fds |-> IF f = Listen THEN {"R"} ELSE {}]
    /\ mask = interest /\ data = [s \in Sockets |-> NULL] /\ maxfd = Listen
    /\ buf = << >> /\ fired = << >> /\ turn = "poll"
    /\ wrote = [c \in Clients |-> 0] /\ echoed = [c \in Clients |-> << >>]
    /\ killed = FALSE

server == << sock, interest, table, buf, fired, turn, echoed, killed >>

-----------------------------------------------------------------------------
(* The clients.                                                             *)

Connect(c) ==
    /\ peer[c] = "new" /\ peer' = [peer EXCEPT ![c] = "syn"]
    /\ UNCHANGED << rx, wrote, server >>

WriteLine(c) ==
    /\ peer[c] \in {"syn", "up"} /\ wrote[c] < MaxLines[c]
    /\ wrote' = [wrote EXCEPT ![c] = @ + 1]
    /\ rx' = [rx EXCEPT ![c] = Append(@, << c, wrote[c] + 1 >>)]
    /\ UNCHANGED << peer, server >>

\* A close, and a reset at any time after it or without it.
Leave(c, how) ==
    /\ IF how = "fin" THEN peer[c] = "up" ELSE peer[c] \in {"up", "fin"}
    /\ peer' = [peer EXCEPT ![c] = how]
    /\ UNCHANGED << rx, wrote, server >>

-----------------------------------------------------------------------------
(* ae.c and ae_epoll.c.                                                     *)

\* aeCreateFileEvent sets clientData whatever it was.
DataOf(fd, b) == b

\* aeDeleteFileEvent for all of fd, after close(fd), which took it out of epoll.
MaxfdAfter(fd) ==
    IF fd # maxfd THEN maxfd ELSE Max({f \in Fds \ {fd} : mask[f] # {}})

\* What epoll reports of a socket: a reset is readable, writable and an error.
Ready(s) ==
    LET c == sock[s]
    IN  (IF c = None THEN {} ELSE
         (IF rx[c] # << >> \/ peer[c] \in {"fin", "rst"} THEN {"R"} ELSE {}) \cup {"W"})
ReadyOf(f) ==
    interest[f] \cap IF f = Listen
                     THEN IF \E c \in Clients : peer[c] = "syn" THEN {"R"} ELSE {}
                     ELSE Ready(f)

\* aeApiPoll fills fired in whatever order epoll_wait reports.
AeApiPoll ==
    LET hot == {f \in Fds : ReadyOf(f) # {}}
    IN  /\ turn = "poll" /\ ~killed /\ hot # {}
        /\ \E order \in SetToSeqs(hot) :
               fired' = [i \in 1 .. Len(order) |-> [fd |-> order[i], mask |-> ReadyOf(order[i])]]
        /\ turn' = "read"
        /\ UNCHANGED << net, sock, interest, table, buf, echoed, killed >>

\* The next of the two looks of aeProcessEvents at the first fired descriptor.
Advance ==
    IF turn = "read" THEN turn' = "write" /\ UNCHANGED fired
    ELSE /\ fired' = Tail(fired)
         /\ turn' = IF Len(fired) = 1 THEN "poll" ELSE "read"

fd0      == fired[1].fd
Calls(k) == turn = (IF k = "R" THEN "read" ELSE "write")
            /\ k \in fired[1].mask \cap mask[fd0]

NoHandler ==
    /\ turn # "poll" /\ ~killed
    /\ ~Calls("R") /\ ~Calls("W")
    /\ Advance
    /\ UNCHANGED << net, sock, interest, table, buf, echoed, killed >>

-----------------------------------------------------------------------------
(* echo.hpp.                                                                *)

With(f, x, v) == [y \in DOMAIN f \cup {x} |-> IF y = x THEN v ELSE f[y]]

FreeFd == Min({s \in Sockets : sock[s] = None})

\* acceptTcpHandler; beyond the set size the connection is closed at once.
Accept(c) ==
    LET s == FreeFd
        b == Min(Buffers \ DOMAIN buf)
    IN  /\ ~killed /\ turn # "poll" /\ fd0 = Listen /\ Calls("R") /\ peer[c] = "syn"
        /\ IF s >= SetSize
           THEN /\ peer' = [peer EXCEPT ![c] = "rst"]
                /\ UNCHANGED << sock, interest, table, buf >>
           ELSE /\ peer' = [peer EXCEPT ![c] = "up"]
                /\ sock' = [sock EXCEPT ![s] = c]
                /\ interest' = [interest EXCEPT ![s] = {"R"}]
                /\ mask' = [mask EXCEPT ![s] = @ \cup {"R"}]
                /\ data' = [data EXCEPT ![s] = DataOf(s, b)]
                /\ maxfd' = IF s > maxfd THEN s ELSE maxfd
                /\ buf' = With(buf, b, [of |-> c, lines |-> << >>])
        /\ Advance
        /\ UNCHANGED << rx, wrote, echoed, killed >>

\* close(fd), both events deleted, free(clientData).
Drop(s) ==
    /\ sock' = [sock EXCEPT ![s] = None]
    /\ interest' = [interest EXCEPT ![s] = {}]
    /\ mask' = [mask EXCEPT ![s] = {}]
    /\ maxfd' = MaxfdAfter(s)
    /\ buf' = [b \in DOMAIN buf \ {data[s]} |-> buf[b]]
    /\ peer' = [peer EXCEPT ![sock[s]] = "rst"]
    /\ UNCHANGED data

\* readHandler: what a read returns is copied over what buf held, and the write
\* event is created; the end of the stream and an error end the connection.
ReadHandler(n) ==
    LET s == fd0
        c == sock[s]
    IN  /\ ~killed /\ turn # "poll" /\ fd0 # Listen /\ Calls("R")
        /\ IF rx[c] = << >> THEN n = 0 /\ Drop(s) /\ UNCHANGED rx
           ELSE /\ n \in 1 .. Len(rx[c])
                /\ rx' = [rx EXCEPT ![c] = SubSeq(@, n + 1, Len(@))]
                /\ buf' = [buf EXCEPT ![data[s]].lines = SubSeq(rx[c], 1, n)]
                /\ mask' = [mask EXCEPT ![s] = @ \cup {"W"}]
                /\ interest' = [interest EXCEPT ![s] = mask[s] \cup {"W"}]
                /\ UNCHANGED << peer, sock, data, maxfd >>
        /\ Advance
        /\ UNCHANGED << wrote, echoed, killed >>

\* Mutant: the write event stays.
KeepsWriting(s) == mask[s]

\* aeDeleteFileEvent(fd, AE_WRITABLE)
WithoutWrite(s) == mask[s] \ {"W"}

\* writeHandler: a write that fails ends the connection, and deletes the write
\* event once more, of a descriptor that has none.
WriteHandler(ok) ==
    LET s == fd0
        c == sock[s]
    IN  /\ ~killed /\ turn # "poll" /\ Calls("W")
        /\ IF ok
           THEN /\ peer[c] # "rst"
                /\ echoed' = [echoed EXCEPT ![c] = @ \o buf[data[s]].lines]
                /\ mask' = [mask EXCEPT ![s] = WithoutWrite(s)]
                /\ interest' = [interest EXCEPT ![s] = WithoutWrite(s)]
                /\ UNCHANGED << peer, sock, data, maxfd, buf >>
           ELSE Drop(s) /\ UNCHANGED echoed
        /\ Advance
        /\ UNCHANGED << rx, wrote, killed >>

\* The write of a connection that was closed and then reset: nobody ignores SIGPIPE.
SigPipe ==
    /\ ~killed /\ turn # "poll" /\ Calls("W") /\ peer[sock[fd0]] = "rst"
    /\ killed' = TRUE
    /\ UNCHANGED << net, sock, interest, table, buf, fired, turn, echoed >>

Next ==
    \/ \E c \in Clients : Connect(c) \/ WriteLine(c) \/ \E h \in {"fin", "rst"} : Leave(c, h)
    \/ AeApiPoll \/ NoHandler \/ SigPipe
    \/ \E c \in Clients : Accept(c)
    \/ \E n \in 0 .. Max({MaxLines[c] : c \in Clients}) : ReadHandler(n)
    \/ \E ok \in BOOLEAN : WriteHandler(ok)

Spec == Init /\ [][Next]_vars

-----------------------------------------------------------------------------
(* Properties.                                                              *)

\* The table of the loop, epoll and the heap agree whatever a handler closes while
\* other descriptors are still to be served: what is registered is open, watched for
\* the same events and carries an EchoBuf that was made for this connection and not
\* freed; no EchoBuf leaks; maxfd is the largest descriptor in use.
EventsAgree ==
    /\ interest = mask
    /\ \A s \in Sockets :
           /\ mask[s] # {} <=> sock[s] # None
           /\ mask[s] # {} => data[s] \in DOMAIN buf /\ buf[data[s]].of = sock[s]
    /\ Cardinality(DOMAIN buf) = Cardinality({s \in Sockets : sock[s] # None})
    /\ maxfd = Max({f \in Fds : mask[f] # {}})

\* A client is sent back what it wrote, in order, and nothing of anybody else's. A
\* line may be missing: a read that comes before the write event copies over it.
EchoOwn ==
    \A c \in Clients : \A j \in DOMAIN echoed[c] :
        /\ echoed[c][j][1] = c
        /\ \A i \in 1 .. j - 1 : echoed[c][i][2] < echoed[c][j][2]

\* Both: a descriptor that is closed and given out again while its old event is still to
\* be served mixes up neither the tables nor the clients.
EchoSound == EventsAgree /\ EchoOwn
=============================================================================
