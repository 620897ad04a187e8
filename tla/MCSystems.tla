----------------------------- MODULE MCSystems -----------------------------
(***************************************************************************)
(* The parts of the repository that share no state with each other, each   *)
(* by itself and on a small instance: Init chooses part, and a behaviour   *)
(* is one of that part. v1 to v18 are the variables of the part in the     *)
(* order of the WITH of its INSTANCE, here or in Parts; those it has no    *)
(* use for stay 0.                                                         *)
(***************************************************************************)
EXTENDS Parts

CONSTANTS
    CacheKeys, Values, CacheCapacity, MaxUsed,              \* LRUCache
    Files, WaitCalls, MaxArrivals,                          \* PollSelect
    Timeouts, CallsUntil, MaxSignals,                       \* SelectCall
    MaxEvents, EventDelays, Clock, Second,                  \* AeTime
    Clients, Requests, Output, PipeSize, MaxFds,            \* WebServer
    Streams, BufSize, Wants,                                \* Rio
    AddressCount, Counts,                                   \* Anet
    Threads, Blocks, Sizes, PREFIX_SIZE, Long,              \* Zmalloc
    Columns, Texts, MaxCalls,                               \* DataStore
    Pairs, Throws, Numbers, Workers, Length                 \* Threads

(* The values of those that are not plain sets or numbers.                  *)
Paths       == << 1, 1 >>
TwoFiles    == << "f1", "f2" >>
Interests   == [{"f1", "f2"} -> {{}, {"in"}, {"in", "ex"}}]
PollCalls   == {c \in [fn : {"select", "poll"}, want : Interests] : c.want["f1"] # {}}
Waits       == {-2, 0, 2}
EchoLines   == [c |-> 2, d |-> 1, e |-> 0]
Chunks      == [server |-> 2, client |-> 3]
AB          == << "a", "b" >>
LunchPairs  == << << "alice", "bob" >>, << "christina", "bob" >>,
                  << "christina", "alice" >>, << "dave", "bob" >> >>
ThreeThrow  == << TRUE, TRUE, FALSE, TRUE >>
OneToNine   == << 1, 2, 3, 4, 5, 6, 7, 8, 9 >>

\* One client asks for a CGI program, the other for anything.
Ask(m, t, l, e, b) == [method |-> m, target |-> t, length |-> l, ended |-> e, body |-> b]
Get(t)     == Ask("GET", t, 0, TRUE, 0)
Others     == {Get(t) : t \in {"file", "missing", "locked", "empty file", "cgi"}}
              \cup {Ask(m, "file", 0, TRUE, 0) : m \in {"", "PUT", "HEAD"}}
              \cup {Ask("HEAD", "cgi", 0, TRUE, 0), Ask("POST", "cgi", 2, TRUE, 2)}
              \cup {Ask("POST", "cgi", l, e, b) : l \in {0, 1}, e \in BOOLEAN, b \in {0, 1}}
WebRequests == {[c1 |-> Get("cgi"), c2 |-> r] : r \in Others}

ByteStreams == UNION {[1 .. n -> {"x", "n"}] : n \in 0 .. 4}

Rows(cols, n) == [kind |-> "rows", cols |-> cols, rows |-> n]
NoRows        == [kind |-> "none", cols |-> << >>, rows |-> 0]
SqlError      == [kind |-> "error", cols |-> << >>, rows |-> 0]
SqlTexts ==
    {<< Rows(<< "id" >>, 1) >>, << Rows(<< "name", "id" >>, 2) >>, << NoRows >>,
     << NoRows, Rows(<< "id", "name" >>, 1) >>, << SqlError >>,
     << Rows(<< "id" >>, 1), Rows(<< "name" >>, 1) >>, << Rows(<< "id" >>, 0), SqlError >>}

VARIABLE part
allvars == << part, v1, v2, v3, v4, v5, v6, v7, v8, v9, v10, v11, v12, v13, v14,
              v15, v16, v17, v18 >>

LRU == INSTANCE LRUCache WITH
    Keys <- CacheKeys, Capacity <- CacheCapacity,
    heap <- v1, values <- v2, logiclists <- v3, used <- v4, last <- v5, recent <- v6

Wait == INSTANCE PollSelect WITH
    Calls <- WaitCalls,
    status <- v1, due <- v2, entries <- v3, triggered <- v4, task <- v5, at <- v6,
    call <- v7, todo <- v8, came <- v9

Call == INSTANCE SelectCall WITH
    MaxNow <- CallsUntil,
    now <- v1, call <- v2, tsp <- v3, end <- v4, at <- v5, ret <- v6, ready <- v7,
    answered <- v8, mask <- v9, restore <- v10, pending <- v11, signals <- v12,
    caught <- v13, deadline <- v14

Time == INSTANCE AeTime WITH
    Delays <- EventDelays,
    list <- v1, id <- v2, when <- v3, nextId <- v4, lastTime <- v5, now <- v6,
    te <- v7, maxId <- v8, skewed <- v9, met <- v10, fired <- v11, finalized <- v12

Web == INSTANCE WebServer WITH
    request <- v1, queue <- v2, gone <- v3, got <- v4, served <- v5, pc <- v6,
    conn <- v7, fds <- v8, feed <- v9, pipeIn <- v10, pipeOut <- v11, child <- v12,
    sigchld <- v13, reaping <- v14

RobustIO == INSTANCE Rio WITH
    stream <- v1, at <- v2, buf <- v3, op <- v4, want <- v5, got <- v6, wrote <- v7,
    taken <- v8, last <- v9

Net == INSTANCE Anet WITH
    Addresses <- AddressCount,
    op <- v1, at <- v2, s <- v3, left <- v4, source <- v5, open <- v6, calls <- v7,
    done <- v8, ret <- v9

Memory == INSTANCE Zmalloc WITH
    heap <- v1, used_memory <- v2, call <- v3, aborted <- v4

Store == INSTANCE DataStore WITH
    conn <- v1, store <- v2, connptr <- v3, unread <- v4, fieldtype <- v5,
    recordset <- v6, row <- v7, text <- v8, calls <- v9, crashed <- v10

Thread == INSTANCE Threads WITH
    exercise <- v1, at <- v2, owner <- v3, partners <- v4, flag <- v5, caller <- v6,
    ran <- v7, results <- v8

\* The slots after the first n are not used.
Unused14 == v15 = 0 /\ v16 = 0 /\ v17 = 0 /\ v18 = 0
Unused13 == v14 = 0 /\ Unused14
Unused12 == v13 = 0 /\ Unused13
Unused10 == v11 = 0 /\ v12 = 0 /\ Unused12
Unused9  == v10 = 0 /\ Unused10
Unused8  == v9 = 0 /\ Unused9
Unused7  == v8 = 0 /\ Unused8
Unused6  == v7 = 0 /\ Unused7
Unused5  == v6 = 0 /\ Unused6
Unused4  == v5 = 0 /\ Unused5
rest14 == << v15, v16, v17, v18 >>
rest13 == << v14, rest14 >>
rest12 == << v13, rest13 >>
rest10 == << v11, v12, rest12 >>
rest9  == << v10, rest10 >>
rest8  == << v9, rest9 >>
rest7  == << v8, rest8 >>
rest6  == << v7, rest7 >>
rest5  == << v6, rest6 >>
rest4  == << v5, rest5 >>

Init ==
    \/ part = "lru" /\ LRU!Init /\ Unused6
    \/ part = "lfu" /\ LFU!Init /\ Unused7
    \/ part = "nest" /\ Nest!Init /\ Unused5
    \/ part = "wait" /\ Wait!Init /\ Unused9
    \/ part = "select" /\ Call!Init /\ Unused14
    \/ part = "timers" /\ Timers!Init /\ Unused6
    \/ part = "echo" /\ Echo!Init /\ Unused13
    \/ part = "time" /\ Time!Init /\ Unused12
    \/ part = "relay" /\ Relay!Init
    \/ part = "web" /\ Web!Init /\ Unused14
    \/ part = "rio" /\ RobustIO!Init /\ Unused9
    \/ part = "anet" /\ Net!Init /\ Unused9
    \/ part = "zmalloc" /\ Memory!Init /\ Unused4
    \/ part = "store" /\ Store!Init /\ Unused10
    \/ part = "threads" /\ Thread!Init /\ Unused8

Next ==
    \/ part = "lru" /\ LRU!Next /\ UNCHANGED << part, rest6 >>
    \/ part = "lfu" /\ LFU!Next /\ UNCHANGED << part, rest7 >>
    \/ part = "nest" /\ Nest!Next /\ UNCHANGED << part, rest5 >>
    \/ part = "wait" /\ Wait!Next /\ UNCHANGED << part, rest9 >>
    \/ part = "select" /\ Call!Next /\ UNCHANGED << part, rest14 >>
    \/ part = "timers" /\ Timers!Next /\ UNCHANGED << part, rest6 >>
    \/ part = "echo" /\ Echo!Next /\ UNCHANGED << part, rest13 >>
    \/ part = "time" /\ Time!Next /\ UNCHANGED << part, rest12 >>
    \/ part = "relay" /\ Relay!Next /\ UNCHANGED part
    \/ part = "web" /\ Web!Next /\ UNCHANGED << part, rest14 >>
    \/ part = "rio" /\ RobustIO!Next /\ UNCHANGED << part, rest9 >>
    \/ part = "anet" /\ Net!Next /\ UNCHANGED << part, rest9 >>
    \/ part = "zmalloc" /\ Memory!Next /\ UNCHANGED << part, rest4 >>
    \/ part = "store" /\ Store!Next /\ UNCHANGED << part, rest10 >>
    \/ part = "threads" /\ Thread!Next /\ UNCHANGED << part, rest8 >>

Spec == Init /\ [][Next]_allvars

-----------------------------------------------------------------------------
(* The properties of the parts, as their modules state them.                *)

ASSUME SystemsAssumption ==
    /\ LRU!CacheAssumption
    /\ Wait!WaitAssumption
    /\ Call!CallAssumption
    /\ Time!TimeAssumption

CacheIsHistory  == part = "lru" => LRU!CacheIsHistory
TablesAgree     == part = "lfu" => LFU!TablesAgree
Acyclic         == part = "nest" => Nest!Acyclic
SleepsOnNothing == /\ part = "wait" => Wait!SleepsOnNothing
                   /\ part = "select" => Call!CallSound
TableIsListed   == part = "timers" => Timers!TableIsListed
EchoSound       == part = "echo" => Echo!EchoSound
TimeEventsSound == part = "time" => Time!TimeEventsSound
InOrder         == part = "relay" => Relay!InOrder
Resumes         == part = "relay" => Relay!Resumes
RequestsSound   == /\ part = "web" => Web!RequestsSound
                   /\ part = "rio" => RobustIO!RioSound
NothingLeaks    == /\ part = "anet" => Net!NothingLeaks
                   /\ part = "zmalloc" => Memory!UsedIsLive
CellsAreThere   == part = "store" => Store!CellsAreThere
ThreadsAgree    == part = "threads" => Thread!ThreadsAgree
LeastUsedLeaves == [][part = "lfu" => LFU!LeastLeaves]_allvars

\* The type invariants of all of them.
TypeOK ==
    /\ part = "lru" => LRU!TypeOK
    /\ part = "lfu" => LFU!TypeOK
    /\ part = "nest" => Nest!TypeOK
    /\ part = "wait" => Wait!TypeOK
    /\ part = "select" => Call!TypeOK
    /\ part = "timers" => Timers!TypeOK
    /\ part = "echo" => Echo!TypeOK
    /\ part = "time" => Time!TypeOK
    /\ part = "relay" => Relay!TypeOK
    /\ part = "web" => Web!TypeOK
    /\ part = "rio" => RobustIO!TypeOK
    /\ part = "anet" => Net!TypeOK
    /\ part = "zmalloc" => Memory!TypeOK
    /\ part = "store" => Store!TypeOK
    /\ part = "threads" => Thread!TypeOK
=============================================================================
