----------------------------- MODULE WebServer ------------------------------
(***************************************************************************)
(* The web server (web.c, main.c) as it is built, with HTTPS: one process  *)
(* that serves one connection after the other, runs CGI programs over      *)
(* pipes and reaps them in a SIGCHLD handler.  A connection hands it one   *)
(* record, what SSL_read returns.                                          *)
(***************************************************************************)
EXTENDS Integers, Sequences, SequencesExt, FiniteSets

CONSTANTS Clients,
          Requests,  \* the ways the clients may ask: functions client -> request
          Output,    \* what the CGI program writes
          PipeSize,  \* the room of a pipe
          MaxFds     \* descriptors the process may have open

VARIABLES
    request,  \* client -> the record it sends: method, target, content length, whether
              \* the empty line is in it, and how many bytes follow that
    queue,    \* clients that wait for accept
    gone,     \* clients that left
    got,      \* client -> what it was sent
    served,   \* clients doit returned for
    pc, conn, \* what the server does, and for whom
    fds,      \* descriptors open
    feed,     \* bytes of the posted data still to be written to pipe_in
    pipeIn, pipeOut,  \* bytes in the two pipes of the request
    child,    \* the CGI processes started: what each has to read and to write, and how
              \* much is still to be read when it writes
    sigchld,  \* SIGCHLD is pending
    reaping   \* in handler_sigchld

clients == << request, queue, gone, got, served >>
server  == << pc, conn, fds, feed >>
cgi     == << pipeIn, pipeOut, child >>
signals == << sigchld, reaping >>
vars    == << clients, server, cgi, signals >>

Pcs == {"accept", "doit", "run", "feed", "copy", "close",
        "spin", "abort", "exit", "undefined"}

TypeOK ==
    /\ queue \in Seq(Clients) /\ {gone, served} \subseteq SUBSET Clients
    /\ DOMAIN got = Clients /\ pc \in Pcs /\ conn \in Clients \cup {"none"}
    /\ fds \in 0 .. MaxFds /\ feed \in Nat /\ pipeIn \in 0 .. PipeSize
    /\ Len(pipeOut) <= PipeSize /\ {sigchld, reaping} \subseteq BOOLEAN
    /\ \A i \in DOMAIN child : child[i].state \in {"running", "silent", "zombie", "reaped"}

Init ==
    /\ request \in Requests
    /\ queue = << >> /\ gone = {} /\ got = [c \in Clients |-> << >>] /\ served = {}
    /\ pc = "accept" /\ conn = "none" /\ fds = 4 /\ feed = 0
    /\ pipeIn = 0 /\ pipeOut = << >> /\ child = << >>
    /\ sigchld = FALSE /\ reaping = FALSE

\* What the server may do next: a signal handler interrupts it.
Up == pc \notin {"spin", "abort", "exit", "undefined"}
At(p) == pc = p /\ ~reaping

-----------------------------------------------------------------------------
(* The clients.                                                            *)

Arrive(c) ==
    /\ c \notin ToSet(queue) \cup served \cup {conn} \cup gone
    /\ queue' = Append(queue, c)
    /\ UNCHANGED << request, gone, got, served, server, cgi, signals >>

Leave(c) ==
    /\ c = conn \/ c \in ToSet(queue)
    /\ gone' = gone \cup {c}
    /\ UNCHANGED << request, queue, got, served, server, cgi, signals >>

\* SSL_write; what it returns is not looked at.
Sent(c, what) == IF c \in gone THEN got ELSE [got EXCEPT ![c] = @ \o what]

-----------------------------------------------------------------------------
(* main.                                                                   *)

\* Accept; its wrapper ends the program when there is no descriptor left.
Accept ==
    /\ At("accept") /\ queue # << >>
    /\ IF fds = MaxFds THEN pc' = "exit" /\ UNCHANGED << conn, fds, queue >>
       ELSE /\ pc' = "doit" /\ conn' = Head(queue) /\ queue' = Tail(queue)
            /\ fds' = fds + 1
    /\ UNCHANGED << request, gone, got, served, feed, cgi, signals >>

\* Close(connfd) after doit.
Finish ==
    /\ At("close")
    /\ pc' = "accept" /\ conn' = "none" /\ fds' = fds - 1
    /\ served' = served \cup {conn}
    /\ UNCHANGED << request, queue, gone, got, feed, cgi, signals >>

-----------------------------------------------------------------------------
(* doit.                                                                   *)

Methods == {"GET", "POST", "HEAD"}
Head200 == << "200" >>

\* post_https_requesthdrs: it stops at a positive length, or where nothing but the
\* empty line is left.
ScanEnds(r) == r.length > 0 \/ (r.ended /\ r.body = 0)

\* The error pages, in the order doit looks for them; "none" when there is none.
ErrorPage(r) ==
    IF r.method \notin Methods THEN "501"
    ELSE IF r.target = "missing" THEN "404"
    ELSE IF r.target \in {"locked", "cgi not executable"} THEN "403"
    ELSE "none"

DoIt ==
    LET r == request[conn]
        Says(what) == got' = Sent(conn, what) /\ pc' = "close" /\ UNCHANGED feed
    IN  /\ At("doit")
        /\ CASE r.method = "" -> Says(<< >>)
             [] r.method # "" /\ ErrorPage(r) # "none" -> Says(<< ErrorPage(r) >>)
             [] ErrorPage(r) = "none" /\ r.target = "file" ->
                    Says(Head200 \o IF r.method = "GET" THEN << "file" >> ELSE << >>)
             [] r.target = "empty file" /\ r.method \in Methods ->
                    pc' = "abort" /\ UNCHANGED << got, feed >>
             [] r.target = "cgi" /\ r.method = "HEAD" -> Says(<< >>)
             [] r.target = "cgi" /\ r.method = "GET" ->
                    got' = Sent(conn, Head200) /\ pc' = "run" /\ feed' = 0
             [] r.target = "cgi" /\ r.method = "POST" ->
                    /\ pc' = IF ~ScanEnds(r) THEN "spin"
                             ELSE IF r.length = 0 THEN "abort" ELSE "run"
                    /\ feed' = r.length
                    /\ UNCHANGED got
        /\ UNCHANGED << request, queue, gone, served, conn, fds, cgi, signals >>

Post == request[conn].method = "POST"

\* get_dynamic and post_dynamic to the fork: the results of pipe are not looked at.
\* The parent of a GET keeps three of the four ends, that of a POST two.
Run ==
    /\ At("run")
    /\ IF fds + 4 > MaxFds
       THEN pc' = "undefined" /\ UNCHANGED << got, fds, cgi >>
       ELSE /\ \E k \in {0, feed} :
                  child' = Append(child, [state |-> "running", reads |-> feed, first |-> k,
                                          writes |-> Output])
            /\ pipeIn' = 0 /\ pipeOut' = << >>
            /\ got' = IF Post THEN Sent(conn, Head200) ELSE got
            /\ fds' = fds + IF Post THEN 2 ELSE 3
            /\ pc' = IF Post THEN "feed" ELSE "copy"
    /\ UNCHANGED << request, queue, gone, served, conn, feed, signals >>

\* Rio_writen of the posted data: as much as the pipe takes.
Feed(n) ==
    /\ At("feed") /\ n \in 1 .. feed /\ pipeIn + n <= PipeSize
    /\ feed' = feed - n /\ pipeIn' = pipeIn + n
    /\ pc' = IF feed = n THEN "copy" ELSE "feed"
    /\ UNCHANGED << clients, conn, fds, pipeOut, child, signals >>

Copy ==
    /\ At("copy") /\ pipeOut # << >>
    /\ got' = Sent(conn, << Head(pipeOut) >>) /\ pipeOut' = Tail(pipeOut)
    /\ UNCHANGED << request, queue, gone, served, server, pipeIn, child, signals >>

\* Mutant: an empty pipe is taken for the end.
PipeEmpty == pipeOut = << >>

\* read returns 0: nobody has the other end of pipe_out any more.
EndOfOutput == pipeOut = << >> /\ Last(child).state # "running"

\* The end of post_dynamic closes its two ends; get_dynamic closes none.
EndCopy ==
    /\ At("copy") /\ EndOfOutput
    /\ pc' = "close" /\ fds' = IF Post THEN fds - 2 ELSE fds
    /\ UNCHANGED << clients, conn, feed, cgi, signals >>

-----------------------------------------------------------------------------
(* The CGI program (external): it reads CONTENT-LENGTH bytes, writes its   *)
(* output, and exits; it writes either when it has read them all or before *)
(* it reads the first, and it may close its output before it exits.        *)

Is(i, s) == i \in DOMAIN child /\ child[i].state = s

\* Which of the two it is at.
Writes(i) == child[i].reads = child[i].first /\ child[i].writes # << >>
Reads(i)  == child[i].reads > 0 /\ ~Writes(i)

CgiRead(i) ==
    /\ Is(i, "running") /\ Reads(i) /\ pipeIn > 0
    /\ child' = [child EXCEPT ![i].reads = @ - 1] /\ pipeIn' = pipeIn - 1
    /\ UNCHANGED << clients, server, pipeOut, signals >>

CgiWrite(i) ==
    /\ Is(i, "running") /\ Writes(i) /\ Len(pipeOut) < PipeSize
    /\ child' = [child EXCEPT ![i].writes = Tail(@)]
    /\ pipeOut' = Append(pipeOut, Head(child[i].writes))
    /\ UNCHANGED << clients, server, pipeIn, signals >>

CgiCloses(i) ==
    /\ Is(i, "running") /\ child[i].reads = 0 /\ child[i].writes = << >>
    /\ child' = [child EXCEPT ![i].state = "silent"]
    /\ UNCHANGED << clients, server, pipeIn, pipeOut, signals >>

CgiExits(i) ==
    /\ Is(i, "silent")
    /\ child' = [child EXCEPT ![i].state = "zombie"] /\ sigchld' = TRUE
    /\ UNCHANGED << clients, server, pipeIn, pipeOut, reaping >>

-----------------------------------------------------------------------------
(* handler_sigchld.                                                        *)

Handle ==
    /\ Up /\ sigchld /\ ~reaping
    /\ sigchld' = FALSE /\ reaping' = TRUE
    /\ UNCHANGED << clients, server, cgi >>

\* Mutant: if for while.
AfterOne == FALSE

\* while (waitpid(-1, NULL, 0) > 0): on, until there is no child at all.
GoesOn == TRUE

Reap(i) ==
    /\ reaping /\ Is(i, "zombie")
    /\ child' = [child EXCEPT ![i].state = "reaped"] /\ reaping' = GoesOn
    /\ UNCHANGED << clients, server, pipeIn, pipeOut, sigchld >>

NoChild ==
    /\ reaping /\ \A i \in DOMAIN child : child[i].state = "reaped"
    /\ reaping' = FALSE
    /\ UNCHANGED << clients, server, cgi, sigchld >>

Next ==
    \/ \E c \in Clients : Arrive(c) \/ Leave(c)
    \/ Accept \/ DoIt \/ Run \/ Copy \/ EndCopy \/ Finish
    \/ \E n \in 1 .. PipeSize : Feed(n)
    \/ \E i \in DOMAIN child : CgiRead(i) \/ CgiWrite(i) \/ CgiCloses(i) \/ CgiExits(i)
    \/ Handle \/ NoChild \/ \E i \in DOMAIN child : Reap(i)

Spec == Init /\ [][Next]_vars

-----------------------------------------------------------------------------
(* Properties.                                                             *)

\* The whole answer to a request.
Answer(r) ==
    IF r.method = "" \/ (r.target = "cgi" /\ r.method = "HEAD") THEN << >>
    ELSE IF ErrorPage(r) # "none" THEN << ErrorPage(r) >>
    ELSE IF r.target = "cgi" THEN Head200 \o Output
    ELSE Head200 \o IF r.method = "GET" THEN << "file" >> ELSE << >>

\* Whatever the pipes, the CGI programs of earlier requests and the signal handler do
\* in between, a client is sent the answer to its own request, and when doit is over
\* all of it, unless it left.
AnswersOwn ==
    \A c \in Clients :
        /\ IsPrefix(got[c], Answer(request[c]))
        /\ c \in served \ gone => got[c] = Answer(request[c])

\* The handler leaves no zombie behind, though several children may have ended for
\* one signal.
NoZombies ==
    ~sigchld /\ ~reaping => \A i \in DOMAIN child : child[i].state # "zombie"

\* The server and the child of its request wait for each other in one way only: with
\* both pipes full, the server not done with the posted data and the child not with its
\* output. (A child may also wait for a server that is in the signal handler.)
HangsOnFullPipes ==
    LET i == Len(child)
        serverWaits == \/ At("feed") /\ pipeIn = PipeSize
                       \/ At("copy") /\ pipeOut = << >>
        childWaits  == \/ Reads(i) /\ pipeIn = 0
                       \/ Writes(i) /\ Len(pipeOut) = PipeSize
    IN  (Is(i, "running") /\ serverWaits /\ childWaits) =>
            /\ pc = "feed" /\ feed > 0 /\ Writes(i)
            /\ pipeIn = PipeSize /\ Len(pipeOut) = PipeSize

\* All three, for the descriptors, pipes and children of a request outlive it.
RequestsSound == AnswersOwn /\ NoZombies /\ HangsOnFullPipes
=============================================================================
