------------------------------- MODULE Parts -------------------------------
(***************************************************************************)
(* Those parts of MCSystems that PartsProofs proves something about, each  *)
(* over the variables that all the parts of MCSystems share: v1 to v18 are *)
(* the variables of a part in the order of the WITH of its INSTANCE.       *)
(***************************************************************************)
EXTENDS Integers, Sequences

CONSTANTS
    Keys, Capacity, MaxCount, MaxNodes,                             \* LFUCache
    Adders, NoAdder, Plain, EpCount, MaxNests, PathLimit, MaxOps,   \* EpollNest
    Ids, Delays, Addresses, MaxNow,                                 \* TimerManager
    EchoClients, SetSize, MaxLines, Buffers,                        \* AeEcho
    HighWater, TooLong, MaxSent                                     \* Tunnel

VARIABLES v1, v2, v3, v4, v5, v6, v7, v8, v9, v10, v11, v12, v13, v14, v15, v16, v17,
          v18

LFU == INSTANCE LFUCache WITH
    key <- v1, values <- v2, counts <- v3, frequencies <- v4, used <- v5,
    threw <- v6, overwrote <- v7

Nest == INSTANCE EpollNest WITH
    links <- v1, epmutex <- v2, call <- v3, walk <- v4, ops <- v5

Timers == INSTANCE TimerManager WITH
    timertb <- v1, timerlist <- v2, timer <- v3, now <- v4, checking <- v5,
    fired <- v6

Echo == INSTANCE AeEcho WITH
    Clients <- EchoClients,
    peer <- v1, rx <- v2, sock <- v3, interest <- v4, mask <- v5, data <- v6,
    maxfd <- v7, buf <- v8, fired <- v9, turn <- v10, wrote <- v11, echoed <- v12,
    killed <- v13

Relay == INSTANCE Tunnel WITH
    relay <- v1, state <- v2, reading <- v3, inp <- v4, out <- v5, wc <- v6,
    peer <- v7, rx <- v8, got <- v9, sent <- v10, context <- v11, client <- v12,
    tunnel <- v13, listed <- v14, pending <- v15, running <- v16, served <- v17,
    fault <- v18

ASSUME PartsAssumption ==
    /\ LFU!CacheAssumption
    /\ Nest!NestAssumption
    /\ Timers!TimersAssumption
    /\ Echo!EchoAssumption
    /\ Relay!TunnelAssumption
=============================================================================
