------------------------------- MODULE Tunnel -------------------------------
(***************************************************************************)
(* A tunnel of tunnel.h between the connection of a user, serverConn_, and *)
(* one to a target, clientConn_, as tcprelay.cc and socket4a.cc make it.   *)
(*                                                                         *)
(* One muduo loop runs everything: in a round it serves each channel that  *)
(* is ready, then the functors that were queued.  High-water-mark and      *)
(* write-complete callbacks are such functors, so they see a later state   *)
(* than the one that queued them.                                          *)
(***************************************************************************)
EXTENDS Integers, Sequences, SequencesExt, FiniteSets, Filter

CONSTANTS HighWater,  \* 1 MB
          TooLong,    \* the 128 bytes socket4a.cc looks for a request in
          MaxSent     \* bound: side -> payload its peer sends

TunnelAssumption == MaxSent \in [{"server", "client"} -> Nat]

VARIABLES
    relay,    \* "tcprelay" or "socket4a"
    state,    \* side -> "none", "up", "shut" (disconnecting) or "down"
    reading,  \* side -> its channel wants to read
    inp, out, \* side -> input and output buffer
    wc,       \* side -> a write-complete callback is set
    peer,     \* side -> "open", "fin" or "rst"
    rx, got,  \* side -> bytes from the peer not read, bytes the peer was sent
    sent,     \* side -> payload the peer has sent
    context,  \* serverConn_ has the other connection as its context
    client,   \* clientConn_ is set
    tunnel,   \* "none", "made", "torn" in this round, "spent"
    listed,   \* in g_tunnels
    pending, running,  \* functors queued, and those of this round
    served,   \* channels served in this round
    fault     \* "no", or the call that went wrong

conns == << state, reading, inp, out, wc >>
wire  == << peer, rx, got, sent >>
tun   == << context, client, tunnel, listed >>
loop  == << pending, running, served >>
vars  == << relay, conns, wire, tun, loop, fault >>

Sides    == {"server", "client"}
Other(s) == IF s = "server" THEN "client" ELSE "server"

\* The payload is numbered from 1; a request comes in two parts; a reply is 0.
Request    == << -2, -1 >>
Reply      == 0
Payload(b) == Keep(b, Nat \ {0})

Bytes == Seq(-2 .. MaxSent["server"] + MaxSent["client"])
TypeOK ==
    /\ state \in [Sides -> {"none", "up", "shut", "down"}]
    /\ {reading, wc} \subseteq [Sides -> BOOLEAN]
    /\ \A s \in Sides : {inp[s], out[s], rx[s], got[s]} \subseteq Bytes
    /\ peer \in [Sides -> {"open", "fin", "rst"}]
    /\ tunnel \in {"none", "made", "torn", "spent"} /\ {context, client, listed} \subseteq BOOLEAN
    /\ fault \in {"no", "clientConn_ is null", "startRead of a closed connection"}

Init ==
    /\ relay \in {"tcprelay", "socket4a"}
    /\ state = [s \in Sides |-> "none"] /\ reading = [s \in Sides |-> FALSE]
    /\ inp = [s \in Sides |-> << >>] /\ out = inp /\ got = inp
    /\ rx = [s \in Sides |-> IF s = "server" /\ relay = "socket4a" THEN Request ELSE << >>]
    /\ wc = [s \in Sides |-> FALSE] /\ peer = [s \in Sides |-> "open"]
    /\ sent = [s \in Sides |-> 0]
    /\ context = FALSE /\ client = FALSE /\ tunnel = "none" /\ listed = FALSE
    /\ pending = << >> /\ running = << >> /\ served = {} /\ fault = "no"

-----------------------------------------------------------------------------
(* The peers.                                                              *)

PeerSends(s) ==
    /\ state[s] # "none" /\ peer[s] = "open" /\ sent[s] < MaxSent[s]
    /\ sent' = [sent EXCEPT ![s] = @ + 1]
    /\ rx' = [rx EXCEPT ![s] = Append(@, sent[s] + 1)]
    /\ UNCHANGED << relay, conns, peer, got, tun, loop, fault >>

PeerLeaves(s, how) ==
    /\ state[s] # "none" /\ peer[s] # "rst" /\ peer[s] # how
    /\ peer' = [peer EXCEPT ![s] = how]
    /\ UNCHANGED << relay, conns, rx, got, sent, tun, loop, fault >>

-----------------------------------------------------------------------------
(* TcpConnection of muduo: a record c of what a step changes.              *)

Now == [state |-> state, reading |-> reading, inp |-> inp, out |-> out, wc |-> wc,
        got |-> got, context |-> context, client |-> client, tunnel |-> tunnel,
        listed |-> listed, pending |-> pending, fault |-> fault]

Become(c) ==
    /\ state' = c.state /\ reading' = c.reading /\ inp' = c.inp /\ out' = c.out
    /\ wc' = c.wc /\ got' = c.got /\ context' = c.context /\ client' = c.client
    /\ tunnel' = c.tunnel /\ listed' = c.listed /\ pending' = c.pending
    /\ fault' = c.fault /\ UNCHANGED << relay, peer, sent >>

Queue(c, what, s) == [c EXCEPT !.pending = Append(@, << what, s >>)]

\* send: k bytes go out at once if nothing waits, the rest is buffered.  Only the
\* step over the mark calls the high-water-mark callback, which the tunnel sets on
\* both connections.
Send(c, s, data, k) ==
    IF c.state[s] # "up" \/ (peer[s] = "rst" /\ c.out[s] = << >>) THEN c ELSE
    LET now  == IF c.out[s] = << >> THEN k ELSE 0
        rest == SubSeq(data, now + 1, Len(data))
        d    == [c EXCEPT !.got[s] = @ \o SubSeq(data, 1, now), !.out[s] = @ \o rest]
    IN  IF rest = << >> THEN IF c.wc[s] THEN Queue(d, "wc", s) ELSE d
        ELSE IF Len(c.out[s]) < HighWater /\ Len(d.out[s]) >= HighWater
             THEN Queue(d, "hw", s) ELSE d

Shutdown(c, s) == [c EXCEPT !.state[s] = IF @ = "up" THEN "shut" ELSE @]

\* startRead of a connection that is down puts its channel back into the poller.
StartRead(c, s) ==
    IF c.state[s] = "down" THEN [c EXCEPT !.fault = "startRead of a closed connection"]
    ELSE [c EXCEPT !.reading[s] = TRUE]
StopRead(c, s) == [c EXCEPT !.reading[s] = FALSE]
NullClient(c)  == [c EXCEPT !.fault = "clientConn_ is null"]

-----------------------------------------------------------------------------
(* tunnel.h.                                                               *)

\* Tunnel::Tunnel, setup, connect, and its place in g_tunnels.
NewTunnel(c) == [c EXCEPT !.tunnel = "made", !.listed = TRUE]

Teardown(c) ==
    Shutdown([c EXCEPT !.context = FALSE, !.client = FALSE, !.tunnel = "torn"], "server")

\* onClientConnection, connected.  k: what of the waiting bytes is written at once.
OnClientUp(c, k) ==
    LET d == StartRead([c EXCEPT !.state["client"] = "up", !.reading["client"] = TRUE,
                                 !.context = TRUE, !.client = TRUE], "server")
    IN  Send([d EXCEPT !.inp["server"] = << >>], "client", c.inp["server"], k)

\* onClientMessage: a connection that is not up does not take the bytes.
OnClientMessage(c, k) ==
    LET data == c.inp["client"]
    IN  IF c.state["server"] # "up" THEN c
        ELSE Send([c EXCEPT !.inp["client"] = << >>], "server", data, k)

\* Mutant: the output may be gone by the time the functor runs.
HighWaterUnchecked(c, s) == [StopRead(c, Other(s)) EXCEPT !.wc[s] = TRUE]

\* onHighWaterMark: stop reading on the other side until the output is written.
OnHighWaterMark(c, s) ==
    IF s = "client" /\ ~c.client THEN NullClient(c)
    ELSE IF c.out[s] = << >> THEN c
    ELSE IF ~c.client THEN NullClient(c)
    ELSE [StopRead(c, Other(s)) EXCEPT !.wc[s] = TRUE]

\* onWriteComplete: clientConn_ is used on either side.
OnWriteComplete(c, s) ==
    IF s = "server" THEN IF ~c.client THEN NullClient(c)
                         ELSE [StartRead(c, "client") EXCEPT !.wc["server"] = FALSE]
    ELSE LET d == StartRead(c, "server")
         IN  IF ~c.client THEN NullClient(d) ELSE [d EXCEPT !.wc["client"] = FALSE]

-----------------------------------------------------------------------------
(* tcprelay.cc and socket4a.cc.                                            *)

\* Mutant: retrieveAll.
NothingLeft(data) == << >>

\* buf->retrieveUntil(where + 1): the end of the request.
AfterRequest(data) == SubSeq(data, Len(Request) + 1, Len(data))

\* onServerMessage of socket4a.cc as long as there is no tunnel.
OnRequest(c, ok) ==
    LET data == c.inp["server"]
    IN  IF Len(data) > TooLong THEN Shutdown(c, "server")
        ELSE IF ~IsPrefix(Request, data) THEN c
        ELSE IF ok THEN Send([NewTunnel(c) EXCEPT !.inp["server"] = AfterRequest(data)],
                             "server", << Reply >>, 1)
        ELSE Shutdown(Send(c, "server", << Reply >>, 1), "server")

\* onServerMessage; the bytes wait in the input buffer until there is a context.
OnServerMessage(c, k, ok) ==
    LET data == c.inp["server"]
    IN  IF relay = "socket4a" /\ ~c.listed THEN OnRequest(c, ok)
        ELSE IF ~c.context \/ c.state["client"] # "up" THEN c
        ELSE Send([c EXCEPT !.inp["server"] = << >>], "client", data, k)

\* onServerConnection, disconnected: client_.disconnect() shuts the other connection.
OnServerDown(c) == IF c.listed THEN [Shutdown(c, "client") EXCEPT !.listed = FALSE] ELSE c

\* onServerConnection, connected.
OnServerUp ==
    /\ state["server"] = "none" /\ running = << >> /\ fault = "no"
    /\ LET c == [Now EXCEPT !.state["server"] = "up"]
       IN  Become(IF relay = "tcprelay" THEN NewTunnel(StopRead(c, "server"))
                  ELSE StartRead(c, "server"))
    /\ UNCHANGED << rx, running, served >>

\* Connector of muduo: it tries until it succeeds; disconnect() does not stop it.
Connected(k) ==
    /\ tunnel = "made" /\ state["client"] = "none" /\ running = << >> /\ fault = "no"
    /\ k \in 0 .. Len(inp["server"])
    /\ Become(OnClientUp(Now, k))
    /\ UNCHANGED << rx, running, served >>

-----------------------------------------------------------------------------
(* EventLoop of muduo: the channels of a round, then its functors.         *)

Turn(s) == /\ s \notin served /\ running = << >> /\ fault = "no"
           /\ state[s] \in {"up", "shut"}
           /\ served' = served \cup {s} /\ UNCHANGED running

\* TcpConnection::handleRead; k as for the send it leads to, ok as for a request.
HandleRead(s, n, k, ok) ==
    /\ Turn(s) /\ reading[s] /\ n \in 1 .. Len(rx[s])
    /\ rx' = [rx EXCEPT ![s] = SubSeq(@, n + 1, Len(@))]
    /\ LET c == [Now EXCEPT !.inp[s] = @ \o SubSeq(rx[s], 1, n)]
       IN  /\ k \in 0 .. Len(c.inp[s])
           /\ Become(IF s = "server" THEN OnServerMessage(c, k, ok) ELSE OnClientMessage(c, k))

\* TcpConnection::handleClose, at the end of the stream; or because both directions
\* are closed while the channel is watched for output only.
HandleClose(s) ==
    /\ Turn(s) /\ peer[s] # "open"
    /\ IF reading[s] THEN rx[s] = << >> ELSE peer[s] = "rst" /\ out[s] # << >>
    /\ LET c == [Now EXCEPT !.state[s] = "down", !.reading[s] = FALSE]
       IN  Become(IF s = "server" THEN OnServerDown(c) ELSE Teardown(c))
    /\ UNCHANGED rx

\* TcpConnection::handleWrite.
HandleWrite(s, n) ==
    /\ Turn(s) /\ peer[s] # "rst" /\ n \in 1 .. Len(out[s])
    /\ LET c == [Now EXCEPT !.out[s] = SubSeq(@, n + 1, Len(@)),
                            !.got[s] = @ \o SubSeq(out[s], 1, n)]
       IN  Become(IF n = Len(out[s]) /\ wc[s] THEN Queue(c, "wc", s) ELSE c)
    /\ UNCHANGED rx

\* doPendingFunctors takes what is queued by now.
StartFunctors ==
    /\ running = << >> /\ fault = "no"
    /\ pending # << >> \/ served # {}
    /\ running' = pending /\ pending' = << >> /\ served' = {}
    /\ tunnel' = IF tunnel = "torn" /\ pending = << >> THEN "spent" ELSE tunnel
    /\ UNCHANGED << relay, conns, wire, context, client, listed, fault >>

\* The weak pointer: a tunnel lives while it is listed, as a callback of its
\* connection, and after a teardown to the end of the round.
Alive == tunnel # "spent" \/ listed

RunFunctor ==
    /\ running # << >> /\ fault = "no"
    /\ LET f == Head(running)
           c == IF ~Alive THEN Now
                ELSE IF f[1] = "hw" THEN OnHighWaterMark(Now, f[2])
                ELSE OnWriteComplete(Now, f[2])
       IN  Become([c EXCEPT !.tunnel = IF @ = "torn" /\ Len(running) = 1 THEN "spent" ELSE @])
    /\ running' = Tail(running)
    /\ UNCHANGED << rx, served >>

Next ==
    \/ OnServerUp \/ StartFunctors \/ RunFunctor
    \/ \E k \in 0 .. MaxSent["server"] : Connected(k)
    \/ \E s \in Sides :
           \/ PeerSends(s) \/ HandleClose(s)
           \/ \E how \in {"fin", "rst"} : PeerLeaves(s, how)
           \/ \E n \in 1 .. MaxSent[s] + 2 : \E k \in 0 .. MaxSent[s] + 2, ok \in BOOLEAN :
                  HandleRead(s, n, k, ok)
           \/ \E n \in 1 .. MaxSent["server"] + MaxSent["client"] : HandleWrite(s, n)

Spec == Init /\ [][Next]_vars

-----------------------------------------------------------------------------
(* Properties.                                                             *)

BothUp == state = [s \in Sides |-> "up"] /\ fault = "no"

\* Each peer is sent what the other one wrote, in order, from the first byte after
\* the request on, though it may have come before there was anybody to send it to;
\* and nothing of it is lost or left behind while both connections are up and the
\* reader has not reset its own.
InOrder ==
    \A s \in Sides :
        LET o   == Other(s)
            all == [i \in 1 .. sent[s] |-> i]
        IN  /\ IsPrefix(Payload(got[o]), all)
            /\ BothUp /\ peer[o] # "rst" =>
                   Payload(got[o] \o out[o] \o rx[s]) = all /\ inp[s] = << >>

\* Back-pressure ends: a side that is not read has been stopped by output of the
\* other one that is still to be written, with the callback set that starts it again,
\* or with that callback on its way.
Resumes ==
    BothUp => \A s \in Sides :
        ~reading[s] => LET o == Other(s)
                       IN  wc[o] /\ (out[o] # << >> \/ << "wc", o >> \in ToSet(pending \o running))
=============================================================================
