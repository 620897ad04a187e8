-------------------------------- MODULE Hub --------------------------------
(***************************************************************************)
(* The publish/subscribe hub of my-test/hubpubsub: the server of hub.cc,   *)
(* the client library of pubsub.cc and the programs pub.cc and sub.cc,     *)
(* talking over TCP.                                                       *)
(*                                                                         *)
(* The hub is one event-loop thread: a callback runs to its end before the *)
(* next one starts. onMessage is a loop that parses one request per turn;  *)
(* `busy' is the connection whose onMessage is running, and each turn is   *)
(* one step, so that the clients, which are other processes, may act in    *)
(* between. TCP delivers each direction in order and in pieces of any      *)
(* size. A client process has one connection in its life: pub and sub quit *)
(* when it is lost.                                                        *)
(***************************************************************************)
EXTENDS Codec, Functions

CONSTANTS Clients,    \* client processes, one connection each
          MaxSends,   \* bound: how many times a client may write
          Rogue,      \* those clients that may also write bad lines
          NoOne,      \* busy when no onMessage is running
          Never       \* the content of a topic nobody has published yet

ASSUME HubAssumption ==
    /\ MaxSends \in Nat
    /\ Rogue \subseteq Clients
    /\ NoOne \notin Clients
    /\ Never \notin Contents

VARIABLES
    cli,        \* the client's end: TcpConnection::state_, seen from the client
    cb,         \* is subscribeCallback_ set?
    sends,      \* how many writes the client has made
    up,         \* lines on the way from client to hub
    conn,       \* the hub's end: TcpConnection::state_, seen from the hub
    buf,        \* the hub's input buffer of the connection
    busy,       \* whose onMessage is running
    subs,       \* ConnectionSubscription, the context of the connection
    audience,   \* Topic::audiences_
    content,    \* Topic::content_, Never until lastPubTime_ is valid
    down,       \* messages on the way from hub to client
    rcvd,       \* history: what the client's subscribeCallback_ was called with
    log,        \* history: what was published on each topic
    since,      \* history: where in the log a subscription began
    bad         \* history: did the client write a bad line?

clientVars == << cli, cb, sends, rcvd, bad >>
hubVars    == << conn, buf, busy, subs, audience, content >>
histVars   == << log, since >>
vars       == << clientVars, hubVars, histVars, up, down >>

\* The end of a direction of the stream (FIN).
Fin == [k |-> "fin"]

Message == [t : Topics, x : Contents]

TypeOK ==
    /\ cli \in [Clients -> {"init", "up", "stopping", "closed"}]
    /\ cb \in [Clients -> BOOLEAN]
    /\ sends \in [Clients -> 0 .. MaxSends]
    /\ up \in [Clients -> Seq(Line \cup {Fin})]
    /\ conn \in [Clients -> {"idle", "up", "closing", "gone"}]
    /\ buf \in [Clients -> Seq(Line)]
    /\ busy \in Clients \cup {NoOne}
    /\ subs \in [Clients -> SUBSET Topics]
    /\ audience \in [Topics -> SUBSET Clients]
    /\ content \in [Topics -> Contents \cup {Never}]
    /\ down \in [Clients -> Seq(Message \cup {Fin})]
    /\ rcvd \in [Clients -> Seq(Message)]
    /\ log \in [Topics -> Seq(Contents)]
    /\ since \in [Clients -> [Topics -> Nat]]
    /\ bad \in [Clients -> BOOLEAN]

Init ==
    /\ cli = [c \in Clients |-> "init"]
    /\ cb = [c \in Clients |-> FALSE]
    /\ sends = [c \in Clients |-> 0]
    /\ up = [c \in Clients |-> << >>]
    /\ conn = [c \in Clients |-> "idle"]
    /\ buf = [c \in Clients |-> << >>]
    /\ busy = NoOne
    /\ subs = [c \in Clients |-> {}]
    /\ audience = [t \in Topics |-> {}]
    /\ content = [t \in Topics |-> Never]
    /\ down = [c \in Clients |-> << >>]
    /\ rcvd = [c \in Clients |-> << >>]
    /\ log = [t \in Topics |-> << >>]
    /\ since = [c \in Clients |-> [t \in Topics |-> 0]]
    /\ bad = [c \in Clients |-> FALSE]

-----------------------------------------------------------------------------
(* TCP.                                                                     *)


\* A read that takes the end of the stream for data.
DataLenWithFin(s) == Len(s)

\* The items of stream s before its FIN, if it has one.
DataLen(s) == IF s # << >> /\ s[Len(s)] = Fin THEN Len(s) - 1 ELSE Len(s)

\* A side that closes its socket loses any tail of what it had not yet sent:
\* the other side reads what is left, then the end of the stream.
Cuts(s) == {Append(SubSeq(s, 1, n), Fin) : n \in 0 .. DataLen(s)}

\* The hub's TcpConnection::send on the connections of set cs: it drops the
\* message unless the connection is kConnected, and the network drops what is
\* sent to a closed socket.
Listening(c) == conn[c] = "up" /\ cli[c] # "closed"

Send(cs, m) ==
    down' = [c \in Clients |->
                IF c \in cs /\ Listening(c) THEN Append(down[c], m) ELSE down[c]]

-----------------------------------------------------------------------------
(* The client library, pubsub.cc.                                           *)

\* The connection is established (the hub has yet to accept it).
Connect(c) ==
    /\ cli[c] = "init"
    /\ cli' = [cli EXCEPT ![c] = "up"]
    /\ UNCHANGED << cb, sends, rcvd, bad, hubVars, histVars, up, down >>

\* PubSubClient::send: nothing is written unless the connection is up.
Write(c, lines) ==
    /\ cli[c] = "up"
    /\ sends[c] < MaxSends
    /\ sends' = [sends EXCEPT ![c] = @ + 1]
    /\ up' = [up EXCEPT ![c] = @ \o lines]
    /\ UNCHANGED << cli, rcvd, hubVars, histVars, down >>

Subscribe(c, t) ==
    /\ Write(c, Encode([op |-> "sub", t |-> t]))
    /\ cb' = [cb EXCEPT ![c] = TRUE]
    /\ UNCHANGED bad

Unsubscribe(c, t) ==
    /\ Write(c, Encode([op |-> "unsub", t |-> t]))
    /\ UNCHANGED << cb, bad >>

Publish(c, t, x) ==
    /\ Write(c, Encode([op |-> "pub", t |-> t, x |-> x]))
    /\ UNCHANGED << cb, bad >>

\* A peer that is not a PubSubClient (a telnet session) writes a bad line.
WriteBad(c, l) ==
    /\ c \in Rogue
    /\ Write(c, << l >>)
    /\ bad' = [bad EXCEPT ![c] = TRUE]
    /\ UNCHANGED cb

\* PubSubClient::stop: TcpClient::disconnect shuts the write side once all is
\* written, and goes on reading.
Stop(c) ==
    /\ cli[c] = "up"
    /\ cli' = [cli EXCEPT ![c] = "stopping"]
    /\ up' = [up EXCEPT ![c] = Append(@, Fin)]
    /\ UNCHANGED << cb, sends, rcvd, bad, hubVars, histVars, down >>

\* PubSubClient::onMessage, one turn of its loop: every message of the hub is
\* a publication, and one that finds no callback is dropped.
OnMessageClient(c) ==
    /\ cli[c] \in {"up", "stopping"}
    /\ down[c] # << >> /\ Head(down[c]) # Fin
    /\ down' = [down EXCEPT ![c] = Tail(@)]
    /\ rcvd' = [rcvd EXCEPT ![c] = IF cb[c] THEN Append(@, Head(down[c])) ELSE @]
    /\ UNCHANGED << cli, cb, sends, bad, hubVars, histVars, up >>

\* The client reads the end of the hub's stream: muduo closes the connection,
\* onConnection resets conn_, and the program's callback quits the loop.
OnCloseClient(c) ==
    /\ cli[c] \in {"up", "stopping"}
    /\ down[c] # << >> /\ Head(down[c]) = Fin
    /\ cli' = [cli EXCEPT ![c] = "closed"]
    /\ down' = [down EXCEPT ![c] = << >>]
    /\ IF conn[c] = "gone" THEN UNCHANGED up
                           ELSE \E s \in Cuts(up[c]) : up' = [up EXCEPT ![c] = s]
    /\ UNCHANGED << cb, sends, rcvd, bad, hubVars, histVars >>

\* The client process dies; its host closes the socket.
Crash(c) ==
    /\ cli[c] \in {"up", "stopping"}
    /\ cli' = [cli EXCEPT ![c] = "closed"]
    /\ down' = [down EXCEPT ![c] = << >>]
    /\ IF conn[c] = "gone" THEN UNCHANGED up
                           ELSE \E s \in Cuts(up[c]) : up' = [up EXCEPT ![c] = s]
    /\ UNCHANGED << cb, sends, rcvd, bad, hubVars, histVars >>

-----------------------------------------------------------------------------
(* The hub, hub.cc.                                                         *)

\* onConnection, connected: an empty ConnectionSubscription is the context.
OnConnected(c) ==
    /\ busy = NoOne
    /\ conn[c] = "idle" /\ cli[c] # "init"
    /\ conn' = [conn EXCEPT ![c] = "up"]
    /\ subs' = [subs EXCEPT ![c] = {}]
    /\ UNCHANGED << clientVars, buf, busy, audience, content, histVars, up, down >>

\* The input buffer of c after n lines have come. An echo-style handler would
\* keep only what the last read brought.
LastRead(c, n) == SubSeq(up[c], 1, n)

Buffered(c, n) == buf[c] \o SubSeq(up[c], 1, n)

\* A read brings the next n lines, and onMessage starts.
OnMessage(c) ==
    /\ busy = NoOne
    /\ conn[c] \in {"up", "closing"}
    /\ \E n \in 1 .. DataLen(up[c]) :
          /\ buf' = [buf EXCEPT ![c] = Buffered(c, n)]
          /\ up' = [up EXCEPT ![c] = SubSeq(@, n + 1, Len(@))]
    /\ busy' = c
    /\ UNCHANGED << clientVars, conn, subs, audience, content, histVars, down >>

\* A turn of the loop that ends it: the rest of a request is still to come.
ParseContinue(c) ==
    /\ busy = c /\ ParseResult(buf[c]) = "kContinue"
    /\ busy' = NoOne
    /\ UNCHANGED << clientVars, conn, buf, subs, audience, content, histVars, up, down >>

\* A shutdown that never closes the write side.
ShutdownStateOnly(c) ==
    /\ conn' = [conn EXCEPT ![c] = IF @ = "up" THEN "closing" ELSE @]
    /\ UNCHANGED down

\* TcpConnection::shutdown: idempotent; FIN follows what is already queued.
Shutdown(c) ==
    /\ conn' = [conn EXCEPT ![c] = IF @ = "up" THEN "closing" ELSE @]
    /\ Send({c}, Fin)

\* A turn that ends the loop with an error: the offending line stays in the
\* buffer if it has no space, and is consumed if its command is unknown.
ParseError(c) ==
    /\ busy = c
    /\ \/ ParseResult(buf[c]) = "kError" /\ UNCHANGED buf
       \/ /\ ParseResult(buf[c]) = "kSuccess" /\ buf[c][1].k = "unknown"
          /\ buf' = [buf EXCEPT ![c] = Rest(@)]
    /\ busy' = NoOne
    /\ Shutdown(c)
    /\ UNCHANGED << clientVars, subs, audience, content, histVars, up >>

\* The guard of the three turns that execute a request.
Parsed(c, cmd) ==
    /\ busy = c /\ ParseResult(buf[c]) = "kSuccess" /\ buf[c][1].k = cmd
    /\ buf' = [buf EXCEPT ![c] = Rest(@)]

\* Topic::add, its second half: what was last published is sent at once. An
\* audience that only waits for the next publication would need no content_.
SendNothing(c, t) == UNCHANGED down

SendRetained(c, t) ==
    IF content[t] # Never THEN Send({c}, [t |-> t, x |-> content[t]])
                          ELSE UNCHANGED down

\* doSubscribe and Topic::add.
DoSubscribe(c) ==
    /\ Parsed(c, "sub")
    /\ LET t == buf[c][1].t IN
          /\ subs' = [subs EXCEPT ![c] = @ \cup {t}]
          /\ audience' = [audience EXCEPT ![t] = @ \cup {c}]
          /\ SendRetained(c, t)
          /\ since' = [since EXCEPT ![c][t] = IF log[t] = << >> THEN 1 ELSE Len(log[t])]
    /\ UNCHANGED << clientVars, conn, busy, content, log, up >>

\* The context once t is erased from it, and with the erase forgotten.
ContextKept(c, t) == subs[c]

ContextWithout(c, t) == subs[c] \ {t}

\* doUnsubscribe and Topic::remove.
DoUnsubscribe(c) ==
    /\ Parsed(c, "unsub")
    /\ LET t == buf[c][1].t IN
          /\ subs' = [subs EXCEPT ![c] = ContextWithout(c, t)]
          /\ audience' = [audience EXCEPT ![t] = @ \ {c}]
    /\ UNCHANGED << clientVars, conn, busy, content, histVars, up, down >>

\* doPublish and Topic::publish: to everyone in the audience.
DoPublish(c) ==
    /\ Parsed(c, "pub")
    /\ LET t == buf[c][1].t
           x == buf[c][2].x
       IN  /\ content' = [content EXCEPT ![t] = x]
           /\ Send(audience[t], [t |-> t, x |-> x])
           /\ log' = [log EXCEPT ![t] = Append(@, x)]
    /\ UNCHANGED << clientVars, conn, busy, subs, audience, since, up >>

\* The audiences once doUnsubscribe has run for all of c's context, and with
\* the loop over the context left out.
AudiencesKept(c) == audience

AudiencesWithout(c) ==
    [t \in Topics |-> IF t \in subs[c] THEN audience[t] \ {c} ELSE audience[t]]

\* onConnection, disconnected: the hub has read the end of the stream; the
\* connection leaves the topics its context names, and its socket is closed.
OnDisconnected(c) ==
    /\ busy = NoOne
    /\ conn[c] \in {"up", "closing"}
    /\ up[c] # << >> /\ Head(up[c]) = Fin
    /\ conn' = [conn EXCEPT ![c] = "gone"]
    /\ audience' = AudiencesWithout(c)
    /\ subs' = [subs EXCEPT ![c] = {}]
    /\ buf' = [buf EXCEPT ![c] = << >>]
    /\ up' = [up EXCEPT ![c] = << >>]
    /\ IF cli[c] = "closed" THEN UNCHANGED down
                            ELSE \E s \in Cuts(down[c]) : down' = [down EXCEPT ![c] = s]
    /\ UNCHANGED << clientVars, busy, content, histVars >>

-----------------------------------------------------------------------------

ClientStep(c) ==
    \/ Connect(c)
    \/ \E t \in Topics : Subscribe(c, t) \/ Unsubscribe(c, t)
    \/ \E t \in Topics, x \in Contents : Publish(c, t, x)
    \/ \E l \in BadLine : WriteBad(c, l)
    \/ Stop(c)
    \/ OnMessageClient(c)
    \/ OnCloseClient(c)
    \/ Crash(c)

OnMessageTurn(c) ==
    \/ ParseContinue(c)
    \/ ParseError(c)
    \/ DoSubscribe(c)
    \/ DoUnsubscribe(c)
    \/ DoPublish(c)

HubStep(c) ==
    \/ OnConnected(c)
    \/ OnMessage(c)
    \/ OnMessageTurn(c)
    \/ OnDisconnected(c)

Next == \E c \in Clients : ClientStep(c) \/ HubStep(c)

Spec == Init /\ [][Next]_vars

-----------------------------------------------------------------------------
(* Properties.                                                              *)

\* The two records of a subscription agree: a connection is in the audience of
\* a topic exactly when the topic is in its context (hub.cc doSubscribe and
\* doUnsubscribe keep both; onConnection trusts the context alone).
AudienceIsContext ==
    \A c \in Clients, t \in Topics : c \in audience[t] <=> t \in subs[c]

\* No topic holds a connection that the hub has not accepted or has dropped:
\* publish would send to it for ever, and its TcpConnectionPtr never die.
NoDeadAudience ==
    \A t \in Topics : \A c \in audience[t] : conn[c] \in {"up", "closing"}

\* What a client has been told or is being told on a topic.
Told(c, t) ==
    LET msgs == Keep(rcvd[c] \o down[c], {m \in Message : m.t = t})
    IN  [i \in 1 .. Len(msgs) |-> msgs[i].x]

\* From the publication retained when it last subscribed, a subscriber is told
\* every publication on the topic, in the order published, none missing and
\* none twice (Topic::add and Topic::publish, PubSubClient::onMessage).
NoGap ==
    \A c \in Clients, t \in Topics :
        t \in subs[c] /\ Listening(c) =>
            IsSuffix(SubSeq(log[t], since[c][t], Len(log[t])), Told(c, t))

\* The hub never shuts down a client that only ever wrote whole requests, in
\* whatever pieces they arrive (codec.h: kContinue, not kError, for a piece).
OnlyBadRejected == \A c \in Clients : conn[c] = "closing" => bad[c]

-----------------------------------------------------------------------------
(* Fairness. The hub's loop runs the callback it has started to its end, and *)
(* its level-triggered poll reports every ready connection each time round,  *)
(* so none is passed over for ever. The client's loop serves its only        *)
(* connection. Nobody is made to connect, to write, to stop or to crash.     *)

Fairness ==
    \A c \in Clients :
        /\ SF_vars(OnConnected(c))
        /\ SF_vars(OnMessage(c))
        /\ SF_vars(OnDisconnected(c))
        /\ WF_vars(OnMessageTurn(c))
        /\ WF_vars(OnMessageClient(c))
        /\ WF_vars(OnCloseClient(c))

FairSpec == Spec /\ Fairness

\* A subscription asked for: on its way, or in force.
Asked(c, t) ==
    \/ t \in subs[c]
    \/ [k |-> "sub", t |-> t] \in Range(up[c])

\* Publisher and subscriber may start in either order (README.md of hubpubsub,
\* question 1): a client that asked for a topic somebody published on is told
\* something, unless its connection ends or it wrote a bad line.
OrderIndependent ==
    \A c \in Clients, t \in Topics :
        Asked(c, t) /\ log[t] # << >>
            ~> rcvd[c] # << >> \/ cli[c] # "up" \/ bad[c]

\* The hub forgets every client that is gone, even one it never accepted
\* before it died (hub.cc onConnection, the disconnected branch).
Reaped ==
    \A c \in Clients :
        cli[c] = "closed" ~> conn[c] = "gone" /\ \A t \in Topics : c \notin audience[t]

\* A connection the hub shuts down for a bad line is really closed, at both
\* ends: the client's library closes when it reads the end of the stream.
RejectedIsClosed ==
    \A c \in Clients : conn[c] = "closing" ~> cli[c] = "closed" /\ conn[c] = "gone"

-----------------------------------------------------------------------------
(* The hub and its clients implement the abstract broker of PubSub. The    *)
(* refinement mapping reads a client's outstanding requests out of the     *)
(* bytes that the hub has buffered and those still on the way.             *)

Data(s) == SubSeq(s, 1, DataLen(s))

AbsMode(c) == {m \in {"asks", "hears", "served"} :
                  \/ m = "asks"   /\ cli[c] = "up"
                  \/ m = "hears"  /\ cli[c] \in {"up", "stopping"}
                                  /\ conn[c] \in {"idle", "up"}
                  \/ m = "served" /\ cli[c] # "init" /\ conn[c] \in {"idle", "up"}}

Broker == INSTANCE PubSub WITH
    mode   <- [c \in Clients |-> AbsMode(c)],
    asked  <- [c \in Clients |-> Decode(buf[c] \o Data(up[c]))],
    member <- subs,
    last   <- content,
    inbox  <- [c \in Clients |-> Data(down[c])]

\* However TCP cuts the streams and whoever dies when, the hub serves every
\* client's requests in order and exactly once and tells every subscriber
\* each publication in order and exactly once (hub.cc onMessage, codec.h).
ImplementsBroker == Broker!Spec

=============================================================================
